---- MODULE Spec2Model ----
(***************************************************************************)
(* PIconnect: chunked execution (thread.py), hierarchy tables and their     *)
(* condensation, and tag extracts (PIAF.py, PI.py, time.py).  The          *)
(* specifications of the module:                                            *)
(*   Spec             threading(source, method, args, chunk_size)          *)
(*   FairSpec         Spec with every enabled step eventually taken        *)
(*   SpecCondense     EventHierarchy.condense()                            *)
(*   SpecHierarchy    get_event_hierarchy() / get_asset_hierarchy()        *)
(*   SpecExtract      interpol_discrete_extract() / summary_extract()      *)
(*   SpecRefElements  EventHierarchy.add_ref_elements()                    *)
(*   SpecContinuous   interpol_continuous_extract(), recorded_extract(),   *)
(*                    plot_continuous_extract()                            *)
(*   SpecTime         timestamp_to_index() and the end of a query range    *)
(*   SpecColumns      the column names in condense()                       *)
(*   SpecSummary      the arguments summary_extract() hands on             *)
(***************************************************************************)
EXTENDS Integers, Sequences, FiniteSets, TLC

VARIABLES
    source,       \* threading: the table handed in, a sequence of rows
    method,       \* threading: the operation, [cls, name]
    chunk_size,   \* threading: chunk_size argument
    mainpc,       \* position of the caller of threading
    err,          \* exception that left threading, "" if none
    lst_chunk,    \* list of chunks, Unbound before line 84/100
    thread,       \* state of each worker thread, by chunk index
    computed,     \* local `result` of each worker
    queue,        \* the shared results list
    idx,          \* loop index of the start loop, then of the join loop
    combined,     \* the table threading returns
    table,        \* condense: self.df, the hierarchy table (rows by Path)
    index,        \* condense: self.df.index, the row labels of the table
    cpc,          \* condense: position in condense()
    level,        \* condense: loop variable `level`
    df_condensed, \* condense: the running condensed table
    columns,      \* condense: df_level.columns after the last rename
    cerr,         \* condense: exception that left condense, "" if none
    hop,          \* hierarchy: the method that builds the table
    afcontainer,  \* hierarchy: the listed nodes, in list order
    df_events,    \* hierarchy: the table under construction, then returned
    hpc,          \* hierarchy: position in the method
    xop,          \* extract: the method, [cls, name]
    tag_list,     \* extract: tag_list argument
    col,          \* extract: col argument
    dataserver,   \* extract: TRUE when a dataserver argument is given
    xdf,          \* extract: the tag column of self.df, one cell per row
    xpc,          \* extract: position in the method
    xerr,         \* extract: exception that left the method
    taglist,      \* extract: the TagList of each row once resolved
    xi,           \* extract: the row that df.apply is at
    calls,        \* extract: extraction calls issued to the data source
    xresult,      \* extract: the rows of the table returned
    rdf,          \* add_ref_elements: self.df, one row per event
    template_name,\* add_ref_elements: the template_name argument, as passed
    rpc,          \* add_ref_elements: position in the method
    rerr,         \* add_ref_elements: exception that left the method
    ref_columns,  \* add_ref_elements: the columns added to self.df
    kop,          \* continuous extract: the method called
    caller_df,    \* continuous extract: the table the accessor was taken of
    self_df,      \* continuous extract: self.df of the accessor
    aliased,      \* continuous extract: TRUE while self.df is the caller's table
    nan_raises,   \* continuous extract: the pandas build raises on Time <= nan
    kpc,          \* continuous extract: position in the method
    kerr,         \* continuous extract: exception that left the method
    procs,        \* continuous extract: groups of the groupby still to visit
    queries,      \* continuous extract: calls made on the TagList, in order
    points,       \* continuous extract: rows of df_cont / of the dict's frames
    timestamp,    \* end time: eventframe.EndTime.UtcTime, a System.DateTime
    local_tz,     \* end time: UTC offset of PIConfig.DEFAULT_TIMEZONE, in hours
    tpc,          \* end time: position (hierarchy cell, then per-row extract)
    terr,         \* end time: exception that left timestamp_to_index
    endtime_cell, \* end time: the Endtime cell of the hierarchy table
    query_end,    \* end time: end of the range of Event.interpolated_values
    row_levels,   \* column names of condense: the levels that have rows
    end_levels,   \* column names of condense: levels with an Endtime that is not all missing
    attr_levels,  \* column names of condense: levels with a value in the attribute column
    mlevel,       \* column names of condense: loop variable `level`
    mcolumns,     \* column names of condense: df_condensed.columns
    mpc,          \* column names of condense: position in condense()
    scls,         \* summary_extract: the class of the accessor
    scol,         \* summary_extract: the col argument
    sdataserver,  \* summary_extract: the dataserver argument
    calculation_basis, \* summary_extract: the calculation_basis argument
    time_type,    \* summary_extract: the time_type argument
    nevents,      \* summary_extract: number of rows of the table
    si,           \* summary_extract: the row that apply is at
    requests      \* summary_extract: the TagList.summary calls made, in order

thrVars == <<source, method, chunk_size, mainpc, err, lst_chunk, thread,
             computed, queue, idx, combined>>

cndVars == <<table, index, cpc, level, df_condensed, columns, cerr>>

hieVars == <<hop, afcontainer, df_events, hpc>>

extVars == <<xop, tag_list, col, dataserver, xdf, xpc, xerr, taglist, xi, calls, xresult>>

refVars == <<rdf, template_name, rpc, rerr, ref_columns>>

conVars == <<kop, caller_df, self_df, aliased, nan_raises, kpc, kerr, procs, queries, points>>

timVars == <<timestamp, local_tz, tpc, terr, endtime_cell, query_end>>

colVars == <<row_levels, end_levels, attr_levels, mlevel, mcolumns, mpc>>

sumVars == <<scls, scol, sdataserver, calculation_basis, time_type, nevents, si, requests>>

restVars == <<refVars, conVars, timVars, colVars, sumVars>>

vars == <<thrVars, cndVars, hieVars, extVars, restVars>>

----------------------------------------------------------------------------
(* Bounds *)
MaxLen == 3
NumSummaryRows == 2
MaxLevel == 2
MaxNodes == 3
MaxRows == 2
MaxTags == 2

(* A row of the source table: an event that extracts, a second one, a row   *)
(* whose Event cell is NaN, and a row whose extraction raises (for example  *)
(* a tag cell the data source cannot resolve).                              *)
Unbound == [bound |-> FALSE, list |-> <<>>]
Raise(kind) == [raised |-> TRUE, kind |-> kind, rows |-> <<>>]
Return(rows) == [raised |-> FALSE, kind |-> "", rows |-> rows]

RECURSIVE SeqsUpTo(_, _)
SeqsUpTo(S, n) ==
    IF n = 0 THEN {<<>>}
    ELSE LET shorter == SeqsUpTo(S, n - 1)
         IN shorter \cup {Append(s, x) : s \in {t \in shorter : Len(t) = n - 1}, x \in S}

Range(s) == {s[i] : i \in DOMAIN s}
Count(s, v) == Cardinality({i \in DOMAIN s : s[i] = v})
SameRows(a, b) == \A v \in Range(a) \cup Range(b) : Count(a, v) = Count(b, v)

RECURSIVE Flatten(_)
Flatten(ss) == IF ss = <<>> THEN <<>> ELSE Head(ss) \o Flatten(Tail(ss))

----------------------------------------------------------------------------
(* thread.py: chunk *)
Slice(obj, lo, hi) ==
    LET n == Len(obj)
        a == IF lo > n THEN n ELSE lo
        b == IF hi > n THEN n ELSE hi
    IN IF a >= b THEN <<>> ELSE SubSeq(obj, a + 1, b)

(* faulty variants of chunk: the last, partial chunk is dropped; every chunk restarts at 0 *)
chunk_dropLast(obj, cs) ==
    [i \in 1..(Len(obj) \div cs) |-> Slice(obj, (i - 1) * cs, i * cs)]

chunk_fromZero(obj, cs) ==
    [i \in 1..((Len(obj) \div cs) + 1) |-> Slice(obj, 0, i * cs)]

chunk(obj, cs) ==
    [i \in 1..((Len(obj) \div cs) + 1) |-> Slice(obj, (i - 1) * cs, i * cs)]

----------------------------------------------------------------------------
(* PIAF.py: the extraction a worker runs on its chunk *)
IsEvent(r) == r # "nan"

CondensedValidate(df) ==
    IF \A i \in DOMAIN df : ~IsEvent(df[i])
    THEN Raise("AttributeError")
    ELSE Return(SelectSeq(df, IsEvent))

extract(df) ==
    IF df = <<>> THEN Raise("ValueError")
    ELSE IF \E i \in DOMAIN df : df[i] \in {"bad", "nan"} THEN Raise("Exception")
    ELSE Return(Flatten([i \in DOMAIN df |-> [k \in 1..NumSummaryRows |-> <<df[i], k>>]]))

summary_extract(df) ==
    LET v == CondensedValidate(df)
    IN IF v.raised THEN v ELSE extract(v.rows)

Whitelist == {"summary_extract", "interpol_discrete_extract", "calc_summary_extract"}

InQualname(s, m) ==
    CASE s = "CondensedEventHierarchy" -> m.cls = "CondensedEventHierarchy"
      [] s = "EventHierarchy" -> m.cls \in {"CondensedEventHierarchy", "EventHierarchy"}
      [] s = "TagList" -> m.cls = "TagList"

Typ(m) ==
    IF InQualname("CondensedEventHierarchy", m) THEN "ecd"
    ELSE IF InQualname("EventHierarchy", m) THEN "ehy"
    ELSE IF InQualname("TagList", m) THEN "tag"
    ELSE "none"

(* lines 86-93 and 102-111: the comparison with the three permitted methods;
   IsWhitelistedAny is the faulty variant that lets every method through *)
IsWhitelistedAny(m) == TRUE

IsWhitelisted(m) == m.name \in Whitelist

source_extract(c, typ) ==
    CASE typ = "ecd" -> summary_extract(c)
      [] typ = "ehy" -> extract(c)
      [] OTHER -> Raise("UnboundLocalError")

(* faulty variant of list.append: a writer overwrites the slot of a concurrent writer *)
ListAppendRacy(q, r) == IF q = <<>> THEN <<r>> ELSE [q EXCEPT ![Len(q)] = r]

ListAppend(q, r) == Append(q, r)

(* faulty variants of Thread.join: returns without waiting; never returns
   for a thread that ended in an exception *)
JoinableNoWait(t) == TRUE

JoinableOnlyDone(t) == thread[t] = "done"

Joinable(t) == thread[t] \in {"done", "dead"}

----------------------------------------------------------------------------
(* the variables of the other methods while one method runs *)
NoError == [type |-> "", msg |-> "", arg |-> <<>>]

IdleHierarchy ==
    /\ hop = ""
    /\ afcontainer = <<>>
    /\ df_events = <<>>
    /\ hpc = "idle"

IdleExtract ==
    /\ xop = [cls |-> "", name |-> ""]
    /\ tag_list = [bare |-> FALSE, items |-> <<>>]
    /\ col = FALSE
    /\ dataserver = FALSE
    /\ xdf = <<>>
    /\ xpc = "idle"
    /\ xerr = NoError
    /\ taglist = <<>>
    /\ xi = 0
    /\ calls = <<>>
    /\ xresult = <<>>

(* a datetime value; nan marks the float np.nan and now marks
   datetime.utcnow() *)
DateTime(y, mo, d, h, mi, sec, us) ==
    [Year |-> y, Month |-> mo, Day |-> d, Hour |-> h, Minute |-> mi,
     Second |-> sec, Microsecond |-> us, nan |-> FALSE, now |-> FALSE]

NaNDate == [DateTime(0, 0, 0, 0, 0, 0, 0) EXCEPT !.nan = TRUE]

UtcNow == [DateTime(0, 0, 0, 0, 0, 0, 0) EXCEPT !.now = TRUE]

(* the variables of add_ref_elements, of the continuous extracts, of the end
   time, of the column names and of the summary arguments, each group at
   rest unless it is the active one *)
IdleExcept(active) ==
    /\ IF active = "RefElements" THEN TRUE
       ELSE /\ rdf = <<>>
            /\ template_name = [kind |-> "", name |-> "", level |-> 0]
            /\ rpc = "idle"
            /\ rerr = NoError
            /\ ref_columns = <<>>
    /\ IF active = "Continuous" THEN TRUE
       ELSE /\ kop = ""
            /\ caller_df = <<>>
            /\ self_df = <<>>
            /\ aliased = FALSE
            /\ nan_raises = FALSE
            /\ kpc = "idle"
            /\ kerr = ""
            /\ procs = <<>>
            /\ queries = <<>>
            /\ points = {}
    /\ IF active = "Time" THEN TRUE
       ELSE /\ timestamp = NaNDate
            /\ local_tz = 0
            /\ tpc = "idle"
            /\ terr = ""
            /\ endtime_cell = NaNDate
            /\ query_end = NaNDate
    /\ IF active = "Columns" THEN TRUE
       ELSE /\ row_levels = {}
            /\ end_levels = {}
            /\ attr_levels = {}
            /\ mlevel = 0
            /\ mcolumns = <<>>
            /\ mpc = "idle"
    /\ IF active = "Summary" THEN TRUE
       ELSE /\ scls = ""
            /\ scol = FALSE
            /\ sdataserver = ""
            /\ calculation_basis = ""
            /\ time_type = ""
            /\ nevents = 0
            /\ si = 0
            /\ requests = <<>>

InitThreading ==
    /\ source \in SeqsUpTo({"e1", "e2", "nan", "bad"}, MaxLen)
    /\ method \in [cls : {"CondensedEventHierarchy", "EventHierarchy", "TagList", "PIServer"},
                     name : Whitelist \cup {"condense"}]
    /\ chunk_size \in 0..(MaxLen + 1)
    /\ mainpc = "check"
    /\ err = ""
    /\ lst_chunk = Unbound
    /\ thread = <<>>
    /\ computed = <<>>
    /\ queue = <<>>
    /\ idx = 0
    /\ combined = <<>>
    /\ table = {}
    /\ index = {}
    /\ cpc = "idle"
    /\ level = 0
    /\ df_condensed = [cols |-> {}, rows |-> {}]
    /\ columns = <<>>
    /\ cerr = ""
    /\ IdleHierarchy
    /\ IdleExtract
    /\ IdleExcept("")

MainRaise(kind) ==
    /\ mainpc' = "raised"
    /\ err' = kind

(* lines 82-123: dispatch on the qualified name, chunk, whitelist *)
CheckMethod ==
    /\ mainpc = "check"
    /\ LET typ == Typ(method)
       IN IF typ \in {"ecd", "ehy"}
          THEN IF chunk_size = 0
               THEN MainRaise("ZeroDivisionError") /\ UNCHANGED lst_chunk
               ELSE /\ lst_chunk' = [bound |-> TRUE, list |-> chunk(source, chunk_size)]
                    /\ IF ~IsWhitelisted(method)
                       THEN MainRaise("AttributeError")
                       ELSE mainpc' = "create" /\ UNCHANGED err
          ELSE IF typ = "tag"
          THEN mainpc' = "create" /\ UNCHANGED <<err, lst_chunk>>
          ELSE MainRaise("AttributeError") /\ UNCHANGED lst_chunk
    /\ UNCHANGED <<source, method, chunk_size, thread, computed, queue, idx, combined>>
    /\ UNCHANGED <<cndVars, hieVars, extVars, restVars>>

(* lines 125-134: one Thread object per chunk *)
CreateThreads ==
    /\ mainpc = "create"
    /\ IF ~lst_chunk.bound
       THEN MainRaise("UnboundLocalError") /\ UNCHANGED <<thread, computed, idx>>
       ELSE /\ thread' = [i \in DOMAIN lst_chunk.list |-> "created"]
            /\ computed' = [i \in DOMAIN lst_chunk.list |-> <<>>]
            /\ idx' = 1
            /\ mainpc' = "start"
            /\ UNCHANGED err
    /\ UNCHANGED <<source, method, chunk_size, lst_chunk, queue, combined>>
    /\ UNCHANGED <<cndVars, hieVars, extVars, restVars>>

(* lines 137-138 *)
StartThread ==
    /\ mainpc = "start"
    /\ IF idx <= Len(thread)
       THEN /\ thread' = [thread EXCEPT ![idx] = "started"]
            /\ idx' = idx + 1
            /\ UNCHANGED mainpc
       ELSE /\ mainpc' = "join"
            /\ idx' = 1
            /\ UNCHANGED thread
    /\ UNCHANGED <<source, method, chunk_size, err, lst_chunk, computed, queue, combined>>
    /\ UNCHANGED <<cndVars, hieVars, extVars, restVars>>

(* source_extract lines 51-58: the operation runs on the chunk *)
WorkerRun(w) ==
    /\ w \in DOMAIN thread
    /\ thread[w] = "started"
    /\ LET r == source_extract(lst_chunk.list[w], Typ(method))
       IN IF r.raised
          THEN thread' = [thread EXCEPT ![w] = "dead"] /\ UNCHANGED computed
          ELSE /\ thread' = [thread EXCEPT ![w] = "computed"]
               /\ computed' = [computed EXCEPT ![w] = r.rows]
    /\ UNCHANGED <<source, method, chunk_size, mainpc, err, lst_chunk, queue, idx, combined>>
    /\ UNCHANGED <<cndVars, hieVars, extVars, restVars>>

(* source_extract lines 59-60: queue.append(result) *)
WorkerAppend(w) ==
    /\ w \in DOMAIN thread
    /\ thread[w] = "computed"
    /\ queue' = ListAppend(queue, computed[w])
    /\ thread' = [thread EXCEPT ![w] = "done"]
    /\ UNCHANGED <<source, method, chunk_size, mainpc, err, lst_chunk, computed, idx, combined>>
    /\ UNCHANGED <<cndVars, hieVars, extVars, restVars>>

(* lines 140-141 *)
JoinThread ==
    /\ mainpc = "join"
    /\ IF idx <= Len(thread)
       THEN /\ Joinable(idx)
            /\ idx' = idx + 1
            /\ UNCHANGED mainpc
       ELSE /\ mainpc' = "concat"
            /\ UNCHANGED idx
    /\ UNCHANGED <<source, method, chunk_size, err, lst_chunk, thread, computed, queue, combined>>
    /\ UNCHANGED <<cndVars, hieVars, extVars, restVars>>

(* line 143: pd.concat(queue).reset_index(drop=True) *)
Concat ==
    /\ mainpc = "concat"
    /\ IF queue = <<>>
       THEN MainRaise("ValueError") /\ UNCHANGED combined
       ELSE /\ combined' = Flatten(queue)
            /\ mainpc' = "returned"
            /\ UNCHANGED err
    /\ UNCHANGED <<source, method, chunk_size, lst_chunk, thread, computed, queue, idx>>
    /\ UNCHANGED <<cndVars, hieVars, extVars, restVars>>

Next ==
    \/ CheckMethod
    \/ CreateThreads
    \/ StartThread
    \/ \E w \in DOMAIN thread : WorkerRun(w)
    \/ \E w \in DOMAIN thread : WorkerAppend(w)
    \/ JoinThread
    \/ Concat

Spec == InitThreading /\ [][Next]_vars

(* the interpreter keeps running the coordinator and the started threads:
   some step is taken as long as one is possible *)
FairSpec == Spec /\ WF_vars(Next)

----------------------------------------------------------------------------
(* Properties of threading *)
Finished == mainpc \in {"returned", "raised"}
AllWorkersTerminated == \A w \in DOMAIN thread : thread[w] \in {"done", "dead"}
CondensedSummary == [cls |-> "CondensedEventHierarchy", name |-> "summary_extract"]
Unchunked == summary_extract(source)

(* C1: for a chunk size in {1, len, len+1}, whenever summary_extract returns
   on the whole table, threading returns and its rows are, as a multiset,
   the rows of the unchunked call, whatever the interleaving of the workers. *)
C1_ChunkedEqualsUnchunked ==
    ( /\ method = CondensedSummary
      /\ chunk_size >= 1
      /\ chunk_size \in {1, Len(source), Len(source) + 1}
      /\ ~Unchunked.raised
      /\ Finished )
    => (mainpc = "returned" /\ SameRows(combined, Unchunked.rows))

C1_Witness ==
    /\ method = CondensedSummary
    /\ chunk_size = 1
    /\ Len(source) >= 2
    /\ source[1] # source[2]
    /\ ~Unchunked.raised
    /\ mainpc = "returned"
    /\ queue[1] # computed[1]

(* C2: an error raised inside a chunk's worker reaches the caller; threading
   never returns a table from which the failed chunk's rows are missing. *)
C2_WorkerErrorSurfaced ==
    mainpc = "returned" =>
        \A w \in DOMAIN thread :
            ~(thread[w] = "dead" /\ "bad" \in Range(lst_chunk.list[w]))

(* C3: once every worker has terminated the queue holds each returned
   chunk result exactly once: no append is lost, none is doubled. *)
C3_NoAppendLost ==
    (thread # <<>> /\ AllWorkersTerminated) =>
        /\ Len(queue) = Cardinality({w \in DOMAIN thread : thread[w] = "done"})
        /\ \A v \in Range(queue) \cup {computed[w] : w \in {x \in DOMAIN thread : thread[x] = "done"}} :
              Count(queue, v) =
                  Cardinality({w \in DOMAIN thread : thread[w] = "done" /\ computed[w] = v})

C3_Witness ==
    /\ AllWorkersTerminated
    /\ Len(thread) >= 3
    /\ Len(queue) = 2
    /\ thread[1] = "done" /\ thread[2] = "done"
    /\ computed[1] # computed[2]
    /\ queue[1] = computed[2]
    /\ queue[2] = computed[1]

(* C4: the results are concatenated only after every spawned worker has
   terminated. *)
C4_ConcatAfterAllJoined ==
    (mainpc \in {"concat", "returned"} \/ (mainpc = "raised" /\ err = "ValueError"))
        => AllWorkersTerminated

C4_Witness ==
    /\ mainpc = "returned"
    /\ Len(thread) >= 3
    /\ \E w \in DOMAIN thread : thread[w] = "dead"
    /\ \E w \in DOMAIN thread : thread[w] = "done"

(* C5 (as stated): only the three extracts of EventHierarchy and
   CondensedEventHierarchy are accepted; every other operation ends in an
   AttributeError with no worker created. *)
ClaimedOperations ==
    [cls : {"CondensedEventHierarchy", "EventHierarchy"},
     name : {"summary_extract", "interpol_discrete_extract", "calc_summary_extract"}]

C6_ChunksPartitionSource ==
    lst_chunk.bound =>
        LET l == lst_chunk.list
        IN /\ Len(l) >= 1
           /\ \A i \in 1..(Len(l) - 1) : Len(l[i]) = chunk_size
           /\ Len(l[Len(l)]) <= chunk_size
           /\ Flatten(l) = source

C6_Witness ==
    /\ lst_chunk.bound
    /\ chunk_size = 2
    /\ Len(source) = 3
    /\ Len(lst_chunk.list) = 2
    /\ lst_chunk.list[2] = <<source[3]>>

(* the coordinator can take a step *)
CoordinatorBlocked ==
    ~Finished /\ ~ENABLED (CheckMethod \/ CreateThreads \/ StartThread \/ JoinThread \/ Concat)

(* C26: threading terminates when the operation of every worker terminates:
   every worker is started before any is joined, a started worker can always
   run whatever the other workers do, and the coordinator waits only in a
   join, for a worker that has not terminated. *)
C26_ThreadingTerminates ==
    /\ [](mainpc \in {"join", "concat", "returned"} =>
            \A w \in DOMAIN thread : thread[w] # "created")
    /\ [](\A w \in DOMAIN thread :
            /\ thread[w] = "started" => ENABLED WorkerRun(w)
            /\ thread[w] = "computed" => ENABLED WorkerAppend(w))
    /\ [](CoordinatorBlocked =>
            (mainpc = "join" /\ idx <= Len(thread) /\ thread[idx] \in {"started", "computed"}))
    /\ <>Finished

C26_Witness ==
    /\ mainpc = "raised"
    /\ err = "ValueError"
    /\ Len(thread) >= 2
    /\ \A w \in DOMAIN thread : thread[w] = "dead"

(* C27: for a non-empty source chunk gives ceil(len(source)/chunk_size)
   chunks, none of them empty, so that no worker is started on an empty
   chunk. *)
C27_NoEmptyChunk ==
    (lst_chunk.bound /\ source # <<>>) =>
        /\ Len(lst_chunk.list) = (Len(source) + chunk_size - 1) \div chunk_size
        /\ \A i \in DOMAIN lst_chunk.list : lst_chunk.list[i] # <<>>

(* C7: with a TagList method as operation threading chunks the tag list and
   runs the workers; it does not fail before any worker has run. *)
C7_TagListRunsWorkers ==
    (method.cls = "TagList" /\ chunk_size >= 1 /\ Len(source) >= 1)
        => ~(mainpc = "raised" /\ thread = <<>>)

----------------------------------------------------------------------------
(* PIAF.py: hierarchy tables.  A path is the string GetPath() returns, kept  *)
(* as a sequence of tokens: the separator "\" and the characters between.    *)
Sep == "\\"
Names == {<<"a">>, <<"b">>}
NaT == 0
NaNEvent == <<>>
NaNKey == <<"nan">>
TempValue == <<"TempValue">>

RECURSIVE JoinPieces(_)
JoinPieces(ps) == IF ps = <<>> THEN <<>> ELSE <<Sep>> \o Head(ps) \o JoinPieces(Tail(ps))

GetPath(segs) == <<Sep, Sep, "srv", Sep, "db">> \o JoinPieces(segs)

(* df["Path"].str.count(r"\\").apply(lambda x: x - 4) *)
CountSep(p) == Cardinality({i \in DOMAIN p : p[i] = Sep})
(* faulty variant of the level: the pieces of the path less 4 *)
LevelOfPieces(p) == CountSep(p) + 1 - 4
LevelOf(p) == CountSep(p) - 4

(* str.split("\\") *)
RECURSIVE Split(_)
Split(p) ==
    IF \A i \in DOMAIN p : p[i] # Sep THEN <<p>>
    ELSE LET i == CHOOSE k \in DOMAIN p : p[k] = Sep /\ \A j \in 1..(k - 1) : p[j] # Sep
         IN <<SubSeq(p, 1, i - 1)>> \o Split(SubSeq(p, i + 1, Len(p)))

(* an explicit end time of a node; an open node has NaT *)
EndtimeAt(lvl) == lvl + 1

HierarchyRow(segs, endtime) ==
    LET path == GetPath(segs)
    IN [Event |-> path, Path |-> path, Level |-> LevelOf(path), Endtime |-> endtime]

RECURSIVE SubsetsUpTo(_, _)
SubsetsUpTo(S, k) ==
    IF k = 0 THEN {{}}
    ELSE LET smaller == SubsetsUpTo(S, k - 1)
         IN smaller \cup {t \cup {x} : t \in smaller, x \in S}

TablesOver(T) ==
    {{HierarchyRow(n, IF n \in open THEN NaT ELSE EndtimeAt(Len(n) - 1)) : n \in T} :
        open \in SUBSET T}

(* 2 roots, each with 1 child and 2 grandchildren *)
ScenarioTable ==
    {HierarchyRow(n, EndtimeAt(Len(n) - 1)) :
        n \in {<<r>> : r \in Names} \cup {<<r, <<"a">>>> : r \in Names}
                 \cup {<<r, <<"a">>, g>> : r \in Names, g \in Names}}

(* the tables condense is given: over up to MaxNodes nodes of the two-way
   tree down to MaxLevel, kept to the paths with at most one segment "b";
   the scenario table; and the tables over a root, its 2 children and the 2
   children of the first child, the least tree in which a node and its
   parent are open while their levels keep an Endtime column *)
HierarchyTables ==
    UNION {TablesOver(T) :
             T \in SubsetsUpTo({n \in UNION {[1..(l + 1) -> Names] : l \in 0..MaxLevel} :
                                   Cardinality({i \in DOMAIN n : n[i] = <<"b">>}) <= 1},
                               MaxNodes)}
        \cup {ScenarioTable}
        \cup TablesOver({<<(<<"a">>)>>} \cup {<<(<<"a">>), c>> : c \in Names}
                            \cup {<<(<<"a">>), <<"a">>, g>> : g \in Names})

----------------------------------------------------------------------------
(* PIAF.py: EventHierarchy.condense *)
KeyCol(k) == [name |-> "key", level |-> k]
Rename(col_name, lvl) == [name |-> col_name, level |-> lvl]
MissingOf(c) ==
    CASE c.name = "key" -> NaNKey
      [] c.name = "Event" -> NaNEvent
      [] c.name = "Endtime" -> NaT

(* column labels: an int (auxiliary key column) or a string, kept as the
   sequence of its tokens *)
IntName(k) == [isint |-> TRUE, n |-> k, s |-> <<>>]
StrName(s) == [isint |-> FALSE, n |-> 0, s |-> s]
Digit(d) == <<"0", "1", "2", "3", "4", "5", "6", "7", "8", "9">>[d + 1]

(* str(int(level)) *)
RECURSIVE Str(_)
Str(n) == IF n < 10 THEN <<Digit(n)>> ELSE Str(n \div 10) \o <<Digit(n % 10)>>

(* line 1590: attribute + " [" + str(template_name) + "]" *)
AttributeName == <<"pH", " ", "[", "Batch", "]">>

(* faulty variant of the rename: no test for a bracket in the name *)
RenameColumnAlways(col_name, lvl) ==
    IF col_name.isint THEN col_name
    ELSE StrName(col_name.s \o <<" ", "[">> \o Str(lvl) \o <<"]">>)

(* lines 1672-1676: col_name + " [" + str(int(level)) + "]" unless the name
   is an int or has a "[" in it *)
RenameColumn(col_name, lvl) ==
    IF col_name.isint \/ \E i \in DOMAIN col_name.s : col_name.s[i] = "["
    THEN col_name
    ELSE StrName(col_name.s \o <<" ", "[">> \o Str(lvl) \o <<"]">>)

RenameColumns(cols, lvl) == [i \in DOMAIN cols |-> RenameColumn(cols[i], lvl)]

LevelsOf(df) == {r.Level : r \in df}
Lmin(df) == CHOOSE l \in LevelsOf(df) : \A m \in LevelsOf(df) : l <= m
Lmax(df) == CHOOSE l \in LevelsOf(df) : \A m \in LevelsOf(df) : l >= m

(* lines 1658-1677: the sub-table of one level, all-missing columns dropped,
   key columns split from Path, other columns renamed *)
LevelFrame(df, lvl) ==
    LET df_level == {r \in df : r.Level = lvl}
        keepEnd == \E r \in df_level : r.Endtime # NaT
        cols == {KeyCol(k) : k \in 0..lvl} \cup {Rename("Event", lvl)}
                    \cup (IF keepEnd THEN {Rename("Endtime", lvl)} ELSE {})
        rowOf(r) == [c \in cols |->
                        CASE c.name = "key" -> Split(r.Path)[c.level + 5]
                          [] c.name = "Event" -> r.Event
                          [] c.name = "Endtime" -> r.Endtime]
    IN [cols |-> cols, rows |-> {rowOf(r) : r \in df_level}]

(* lines 1657-1669: the column labels of the sub-table of one level before
   the rename: the columns of the table that are not all missing, Path
   dropped, the key columns 0..level added; the attribute column has values
   on the rows of the top level *)
LevelColumns(lvl, keepEnd, keepAttr) ==
    <<StrName(<<"Event">>), StrName(<<"Name">>), StrName(<<"Level">>),
      StrName(<<"Template">>), StrName(<<"Starttime">>)>>
    \o (IF keepEnd THEN <<StrName(<<"Endtime">>)>> ELSE <<>>)
    \o (IF keepAttr THEN <<StrName(AttributeName)>> ELSE <<>>)
    \o [k \in 1..(lvl + 1) |-> IntName(k - 1)]

DfLevelColumns(df, lvl) ==
    LevelColumns(lvl, \E r \in df : r.Level = lvl /\ r.Endtime # NaT, lvl = 0)

Matches(l, r, on) == \A k \in on : l[k] = r[k]

(* faulty variants of the merge: a left join; a join on the first key column only *)
MergeLeft(left, right, on) ==
    LET cols == left.cols \cup right.cols
        both(l, r) == [c \in cols |-> IF c \in left.cols THEN l[c] ELSE r[c]]
        leftOnly(l) == [c \in cols |-> IF c \in left.cols THEN l[c] ELSE MissingOf(c)]
    IN [cols |-> cols,
        rows |-> {both(l, r) : <<l, r>> \in {x \in left.rows \X right.rows : Matches(x[1], x[2], on)}}
                 \cup {leftOnly(l) : l \in {x \in left.rows : \A r \in right.rows : ~Matches(x, r, on)}}]

MergeOnFirstKey(left, right, on) ==
    LET cols == left.cols \cup right.cols
        first == {k \in on : \A j \in on : k.level <= j.level}
        both(l, r) == [c \in cols |-> IF c \in right.cols THEN r[c] ELSE l[c]]
        leftOnly(l) == [c \in cols |-> IF c \in left.cols THEN l[c] ELSE MissingOf(c)]
        rightOnly(r) == [c \in cols |-> IF c \in right.cols THEN r[c] ELSE MissingOf(c)]
    IN [cols |-> cols,
        rows |-> {both(l, r) : <<l, r>> \in {x \in left.rows \X right.rows : Matches(x[1], x[2], first)}}
                 \cup {leftOnly(l) : l \in {x \in left.rows : \A r \in right.rows : ~Matches(x, r, first)}}
                 \cup {rightOnly(r) : r \in {x \in right.rows : \A l \in left.rows : ~Matches(l, x, first)}}]

(* lines 1682-1688: pd.merge(df_condensed, df_level, how="outer", on=cols[:-1]) *)
Merge(left, right, on) ==
    LET cols == left.cols \cup right.cols
        both(l, r) == [c \in cols |-> IF c \in left.cols THEN l[c] ELSE r[c]]
        leftOnly(l) == [c \in cols |-> IF c \in left.cols THEN l[c] ELSE MissingOf(c)]
        rightOnly(r) == [c \in cols |-> IF c \in right.cols THEN r[c] ELSE MissingOf(c)]
    IN [cols |-> cols,
        rows |-> {both(l, r) : <<l, r>> \in {x \in left.rows \X right.rows : Matches(x[1], x[2], on)}}
                 \cup {leftOnly(l) : l \in {x \in left.rows : \A r \in right.rows : ~Matches(x, r, on)}}
                 \cup {rightOnly(r) : r \in {x \in right.rows : \A l \in left.rows : ~Matches(l, x, on)}}]

(* lines 1689-1697: drop the integer-named key columns *)
DropAux(frame) ==
    LET cols == {c \in frame.cols : c.name # "key"}
    IN [cols |-> cols, rows |-> {[c \in cols |-> r[c]] : r \in frame.rows}]

(* lines 1699-1703: astype(str).drop_duplicates(keep="first") *)
StrRow(cols, r) ==
    [c \in cols |->
        IF r[c] = MissingOf(c) THEN <<"nan">>
        ELSE IF c.name = "Event" THEN <<"Event:">> \o r[c]
        ELSE <<"ts", r[c]>>]

DropDuplicates(frame) ==
    LET images == {StrRow(frame.cols, r) : r \in frame.rows}
    IN [cols |-> frame.cols,
        rows |-> {CHOOSE r \in frame.rows : StrRow(frame.cols, r) = s : s \in images}]

RECURSIVE SortedSeq(_)
SortedSeq(S) ==
    IF S = {} THEN <<>>
    ELSE LET m == CHOOSE x \in S : \A y \in S : x <= y
         IN <<m>> \o SortedSeq(S \ {m})

(* lines 1705-1717: every Endtime column but the first inherits its missing
   values from the Endtime column before it *)
RECURSIVE FillFrom(_, _, _)
FillFrom(rows, endtime_cols, i) ==
    IF i > Len(endtime_cols) THEN rows
    ELSE IF i = 1 THEN FillFrom(rows, endtime_cols, i + 1)
    ELSE FillFrom({[r EXCEPT ![endtime_cols[i]] =
                        IF @ = NaT THEN r[endtime_cols[i - 1]] ELSE @] : r \in rows},
                  endtime_cols, i + 1)

(* faulty variant of the fill: every column is filled from the unfilled
   column before it, so that nothing propagates through two open levels *)
FillEndtimesUnchained(frame) ==
    LET lvls == SortedSeq({c.level : c \in {x \in frame.cols : x.name = "Endtime"}})
        endtime_cols == [i \in DOMAIN lvls |-> Rename("Endtime", lvls[i])]
        prev(c) == endtime_cols[(CHOOSE i \in DOMAIN lvls : endtime_cols[i] = c) - 1]
        later == {endtime_cols[i] : i \in 2..Len(lvls)}
    IN [cols |-> frame.cols,
        rows |-> {[c \in frame.cols |->
                      IF c \in later /\ r[c] = NaT THEN r[prev(c)] ELSE r[c]] : r \in frame.rows}]

FillEndtimes(frame) ==
    LET lvls == SortedSeq({c.level : c \in {x \in frame.cols : x.name = "Endtime"}})
        endtime_cols == [i \in DOMAIN lvls |-> Rename("Endtime", lvls[i])]
    IN [cols |-> frame.cols, rows |-> FillFrom(frame.rows, endtime_cols, 1)]

----------------------------------------------------------------------------
NoFrame == [cols |-> {}, rows |-> {}]

(* the row labels of a table: a RangeIndex, or the labels that are left
   when the rows are taken out of a longer table; a table of several levels
   is taken with a RangeIndex only, the merge numbers its rows anew *)
IndexLabels(df) ==
    IF Cardinality(LevelsOf(df)) > 1 THEN {0..(Cardinality(df) - 1)}
    ELSE {0..(Cardinality(df) - 1), 1..Cardinality(df)}

InitCondense ==
    /\ table \in HierarchyTables
    /\ index \in IndexLabels(table)
    /\ cpc = "start"
    /\ level = 0
    /\ df_condensed = NoFrame
    /\ columns = <<>>
    /\ cerr = ""
    /\ source = <<>>
    /\ method = [cls |-> "EventHierarchy", name |-> "condense"]
    /\ chunk_size = 0
    /\ mainpc = "idle"
    /\ err = ""
    /\ lst_chunk = Unbound
    /\ thread = <<>>
    /\ computed = <<>>
    /\ queue = <<>>
    /\ idx = 0
    /\ combined = <<>>
    /\ IdleHierarchy
    /\ IdleExtract
    /\ IdleExcept("")

(* lines 1653-1656: copy the table, range(int(min), int(max + 1)) *)
CondenseStart ==
    /\ cpc = "start"
    /\ IF table = {}
       THEN cpc' = "raised" /\ cerr' = "ValueError" /\ UNCHANGED level
       ELSE cpc' = "loop" /\ level' = Lmin(table) /\ UNCHANGED cerr
    /\ UNCHANGED <<table, index, df_condensed, columns>>
    /\ UNCHANGED <<thrVars, hieVars, extVars, restVars>>

(* lines 1656-1688: one iteration of the level loop *)
CondenseLevel ==
    /\ cpc = "loop"
    /\ level <= Lmax(table)
    /\ LET df_level == LevelFrame(table, level)
           on == {KeyCol(k) : k \in 0..(level - 1)}
       IN IF df_level.rows = {}
          THEN /\ LET cols == df_condensed.cols \cup {KeyCol(level)}
                  IN  df_condensed' =
                          [cols |-> cols,
                           rows |-> {[c \in cols |-> IF c = KeyCol(level) THEN TempValue ELSE r[c]] :
                                        r \in df_condensed.rows}]
               /\ level' = level + 1
               /\ UNCHANGED <<cpc, cerr, columns>>
          ELSE IF level = Lmin(table)
          THEN /\ df_condensed' = df_level
               /\ columns' = RenameColumns(DfLevelColumns(table, level), level)
               /\ level' = level + 1
               /\ UNCHANGED <<cpc, cerr>>
          ELSE IF ~(on \subseteq df_condensed.cols)
          THEN /\ cpc' = "raised"
               /\ cerr' = "KeyError"
               /\ columns' = RenameColumns(DfLevelColumns(table, level), level)
               /\ UNCHANGED <<df_condensed, level>>
          ELSE /\ df_condensed' = Merge(df_condensed, df_level, on)
               /\ columns' = RenameColumns(DfLevelColumns(table, level), level)
               /\ level' = level + 1
               /\ UNCHANGED <<cpc, cerr>>
    /\ UNCHANGED <<table, index>>
    /\ UNCHANGED <<thrVars, hieVars, extVars, restVars>>

(* lines 1689-1719: drop the key columns, drop duplicates by position, fill
   end times.  The level frame keeps the labels of the table, a merge
   numbers its rows anew; iloc takes the labels of the rows that
   drop_duplicates keeps as positions *)
CondenseFinish ==
    /\ cpc = "loop"
    /\ level > Lmax(table)
    /\ LET frame == DropAux(df_condensed)
           kept == DropDuplicates(frame)
           labels == IF Lmin(table) = Lmax(table) THEN index
                     ELSE 0..(Cardinality(kept.rows) - 1)
       IN IF \E l \in labels : l >= Cardinality(frame.rows)
          THEN /\ cpc' = "raised"
               /\ cerr' = "IndexError"
               /\ UNCHANGED df_condensed
          ELSE /\ df_condensed' = FillEndtimes(kept)
               /\ cpc' = "done"
               /\ UNCHANGED cerr
    /\ UNCHANGED <<table, index, level, columns>>
    /\ UNCHANGED <<thrVars, hieVars, extVars, restVars>>

NextCondense ==
    \/ CondenseStart
    \/ CondenseLevel
    \/ CondenseFinish

SpecCondense == InitCondense /\ [][NextCondense]_vars

----------------------------------------------------------------------------
(* PIAF.py: get_event_hierarchy of EventList and Event, get_asset_hierarchy
   of AssetList *)
IdleThreading ==
    /\ source = <<>>
    /\ method = [cls |-> "", name |-> ""]
    /\ chunk_size = 0
    /\ mainpc = "idle"
    /\ err = ""
    /\ lst_chunk = Unbound
    /\ thread = <<>>
    /\ computed = <<>>
    /\ queue = <<>>
    /\ idx = 0
    /\ combined = <<>>

IdleCondense ==
    /\ table = {}
    /\ index = {}
    /\ cpc = "idle"
    /\ level = 0
    /\ df_condensed = NoFrame
    /\ columns = <<>>
    /\ cerr = ""

(* the nodes of the database: a root with a child, and a second root *)
DatabaseSegs == {<<(<<"a">>)>>, <<(<<"a">>), <<"a">>>>, <<(<<"b">>)>>}

(* the lists of nodes a hierarchy is asked for: no node twice *)
Listings(hierarchy_op) ==
    IF hierarchy_op = "Event.get_event_hierarchy"
    THEN {<<n>> : n \in DatabaseSegs}
    ELSE {<<>>} \cup {<<n>> : n \in DatabaseSegs}
            \cup {p \in DatabaseSegs \X DatabaseSegs : p[1] # p[2]}

(* LoadEventFramesToDepth / LoadElementsToDepth: the listed nodes and the
   nodes below them, in an order and with the repetitions the data source
   chooses *)
Loadable(container) ==
    {m \in DatabaseSegs :
        \E i \in DOMAIN container :
            Len(container[i]) <= Len(m) /\ SubSeq(m, 1, Len(container[i])) = container[i]}

(* pd.DataFrame([(y, y.GetPath()) for y in ...], columns=[.., "Path"]) *)
PathRows(nodes) == [i \in DOMAIN nodes |-> [Path |-> GetPath(nodes[i]), Label |-> i - 1]]

(* drop_duplicates("Path"): the first row of every Path, label kept *)
DropDuplicatesPath(df) ==
    LET first(i) == \A j \in 1..(i - 1) : df[j].Path # df[i].Path
        RECURSIVE keep(_)
        keep(i) == IF i > Len(df) THEN <<>>
                   ELSE (IF first(i) THEN <<df[i]>> ELSE <<>>) \o keep(i + 1)
    IN keep(1)

(* lines 182, 1535: drop_duplicates("Path"); lines 610-621: the table of
   assets is returned as it is unless the list was empty *)
ReturnedTable(hierarchy_op, container, df) ==
    IF hierarchy_op = "AssetList.get_asset_hierarchy" /\ Len(container) > 0
    THEN df
    ELSE DropDuplicatesPath(df)

InitHierarchy ==
    /\ hop \in {"EventList.get_event_hierarchy", "Event.get_event_hierarchy",
                "AssetList.get_asset_hierarchy"}
    /\ afcontainer \in Listings(hop)
    /\ df_events = <<>>
    /\ hpc = "start"
    /\ IdleThreading
    /\ IdleCondense
    /\ IdleExtract
    /\ IdleExcept("")

(* lines 114-181, 565-617, 1492-1533: the table of the listed nodes and of
   the nodes the data source loads *)
LoadToDepth ==
    /\ hpc = "start"
    /\ IF Len(afcontainer) > 0
       THEN \E event_depth \in SeqsUpTo(Loadable(afcontainer), MaxLen) :
               LET ab == PathRows(afcontainer) \o PathRows(event_depth)
               IN  df_events' = [i \in DOMAIN ab |->
                                    [Path |-> ab[i].Path, Level |-> LevelOf(ab[i].Path),
                                     Label |-> i - 1]]
       ELSE df_events' = <<>>
    /\ hpc' = "loaded"
    /\ UNCHANGED <<hop, afcontainer>>
    /\ UNCHANGED <<thrVars, cndVars, extVars, restVars>>

(* lines 182, 617-621, 1535 *)
ReturnHierarchy ==
    /\ hpc = "loaded"
    /\ df_events' = ReturnedTable(hop, afcontainer, df_events)
    /\ hpc' = "done"
    /\ UNCHANGED <<hop, afcontainer>>
    /\ UNCHANGED <<thrVars, cndVars, extVars, restVars>>

NextHierarchy ==
    \/ LoadToDepth
    \/ ReturnHierarchy

SpecHierarchy == InitHierarchy /\ [][NextHierarchy]_vars

(* C15: the table that get_event_hierarchy / get_asset_hierarchy returns
   has at most one row of every Path, also when the data source returns a
   node more than once. *)
C15_OneRowPerPath ==
    hpc = "done" =>
        \A i, j \in DOMAIN df_events : df_events[i].Path = df_events[j].Path => i = j

----------------------------------------------------------------------------
(* Properties of condense *)
TablePaths == {r.Path : r \in table}
RowOfPath(p) == CHOOSE r \in table : r.Path = p
IsUnder(p, q) == Len(q) > Len(p) /\ SubSeq(q, 1, Len(p)) = p /\ q[Len(p) + 1] = Sep
HasDescendant(p) == \E q \in TablePaths : IsUnder(p, q)
HasChild(p) == \E q \in TablePaths : IsUnder(p, q) /\ LevelOf(q) = LevelOf(p) + 1
LeafPaths == {p \in TablePaths : ~HasDescendant(p)}
ChildlessPaths == {p \in TablePaths : ~HasChild(p)}
AncestorPath(p, k) == GetPath(SubSeq(Split(p), 5, 5 + k))
ChainInTable(p, k) == \A j \in k..(LevelOf(p) - 1) : AncestorPath(p, j) \in TablePaths
EventLevels == {c.level : c \in {x \in df_condensed.cols : x.name = "Event"}}

(* C8 (as stated): the condensed table has exactly one row per leaf path of
   the input (a path with no descendant row), never more. *)
C8_RowsEqualLeafPaths ==
    cpc = "done" => Cardinality(df_condensed.rows) = Cardinality(LeafPaths)

(* C8 (amended): the condensed table has exactly one row per path that has
   no child row in the input; this is the number of leaf paths whenever
   every row that has a descendant row also has a child row, and otherwise
   larger; 2 roots with 1 child and 2 grandchildren each give 4 rows. *)
C8_RowsEqualChildlessPaths ==
    cpc = "done" =>
        /\ Cardinality(df_condensed.rows) = Cardinality(ChildlessPaths)
        /\ Cardinality(df_condensed.rows) >= Cardinality(LeafPaths)
        /\ (\A p \in TablePaths : HasDescendant(p) => HasChild(p))
              => Cardinality(df_condensed.rows) = Cardinality(LeafPaths)
        /\ table = ScenarioTable => Cardinality(df_condensed.rows) = 4

C8_Witness ==
    /\ cpc = "done"
    /\ table = ScenarioTable
    /\ Cardinality(df_condensed.rows) = 4
    /\ EventLevels = {0, 1, 2}

(* C9 (as stated): a row built from a level-L node carries, at every
   shallower level K, the values of the node's level-K ancestor whenever
   that ancestor is a row of the input. *)
C9_CarriesEveryAncestorInTable ==
    cpc = "done" =>
        \A r \in df_condensed.rows : \A l \in EventLevels : \A k \in EventLevels :
            (k < l /\ r[Rename("Event", l)] # NaNEvent
                 /\ AncestorPath(r[Rename("Event", l)], k) \in TablePaths)
                => r[Rename("Event", k)] = AncestorPath(r[Rename("Event", l)], k)

(* C9 (amended): a row built from a level-L node carries, at a shallower
   level K, the values of the node's level-K ancestor whenever that ancestor
   and every ancestor of the node at the levels between K and L are rows of
   the input; every input row survives in some condensed row; a row without
   child rows keeps a condensed row whose deeper levels are missing, and a
   row whose parent is not in the table has the shallower levels missing. *)
C9_CarriesAncestorChain ==
    cpc = "done" =>
        /\ \A r \in df_condensed.rows : \A l \in EventLevels : \A k \in EventLevels :
              (k < l /\ r[Rename("Event", l)] # NaNEvent)
                  => LET p == r[Rename("Event", l)]
                         a == AncestorPath(p, k)
                     IN /\ ChainInTable(p, k)
                           => /\ r[Rename("Event", k)] = a
                              /\ (RowOfPath(a).Endtime # NaT
                                    => r[Rename("Endtime", k)] = RowOfPath(a).Endtime)
                        /\ AncestorPath(p, l - 1) \notin TablePaths
                           => r[Rename("Event", k)] = NaNEvent
        /\ \A p \in TablePaths :
              \E r \in df_condensed.rows : r[Rename("Event", LevelOf(p))] = p
        /\ \A p \in ChildlessPaths :
              \E r \in df_condensed.rows :
                  /\ r[Rename("Event", LevelOf(p))] = p
                  /\ \A l \in EventLevels : l > LevelOf(p) => r[Rename("Event", l)] = NaNEvent

C9_Witness ==
    /\ cpc = "done"
    /\ \E r \in df_condensed.rows :
          /\ EventLevels = {0, 1, 2}
          /\ r[Rename("Event", 2)] # NaNEvent
          /\ r[Rename("Event", 1)] = AncestorPath(r[Rename("Event", 2)], 1)
          /\ r[Rename("Event", 0)] = AncestorPath(r[Rename("Event", 2)], 0)
          /\ Rename("Endtime", 0) \in df_condensed.cols
          /\ r[Rename("Endtime", 0)] = EndtimeAt(0)

(* C10: after condense the level-0 Endtime column has no missing value
   (an open top node gets the current time). *)
C10_Level0EndtimeFilled ==
    (cpc = "done" /\ Rename("Endtime", 0) \in df_condensed.cols) =>
        \A r \in df_condensed.rows :
            r[Rename("Event", 0)] # NaNEvent => r[Rename("Endtime", 0)] # NaT

(* The Endtime columns of a frame and, for one of them, the Endtime column
   of the nearest shallower level that has one. *)
EndtimeLevels(frame) == {c.level : c \in {x \in frame.cols : x.name = "Endtime"}}
HasShallower(frame, l) == \E k \in EndtimeLevels(frame) : k < l
NearestShallower(frame, l) ==
    CHOOSE k \in EndtimeLevels(frame) : k < l /\ \A j \in EndtimeLevels(frame) : j < l => j <= k

(* row q before the fill and row r after it *)
Inherited(frame, q, r) ==
    /\ \A c \in frame.cols : c.name # "Endtime" => r[c] = q[c]
    /\ \A l \in EndtimeLevels(frame) :
          /\ q[Rename("Endtime", l)] # NaT => r[Rename("Endtime", l)] = q[Rename("Endtime", l)]
          /\ (q[Rename("Endtime", l)] = NaT /\ HasShallower(frame, l))
                => r[Rename("Endtime", l)] = r[Rename("Endtime", NearestShallower(frame, l))]
          /\ \A k \in EndtimeLevels(frame) :
                (/\ k < l
                 /\ q[Rename("Endtime", k)] # NaT
                 /\ \A j \in EndtimeLevels(frame) : (k < j /\ j <= l) => q[Rename("Endtime", j)] = NaT)
                    => r[Rename("Endtime", l)] = q[Rename("Endtime", k)]

(* C11: the fill of condense leaves every cell that had a value unchanged
   and gives a missing cell of an Endtime column deeper than the shallowest
   the filled value, in the same row, of the Endtime column of the nearest
   shallower level that has one, so that a value passes down through several
   consecutive open levels. *)
C11_EndtimeInheritedInLevelOrder ==
    [][(cpc = "loop" /\ cpc' = "done") =>
          LET pre == DropDuplicates(DropAux(df_condensed))
              post == df_condensed'
          IN /\ post.cols = pre.cols
             /\ \A q \in pre.rows : \E r \in post.rows : Inherited(pre, q, r)
             /\ \A r \in post.rows : \E q \in pre.rows : Inherited(pre, q, r)]_vars

C11_Witness ==
    /\ cpc = "done"
    /\ {Rename("Endtime", l) : l \in 0..2} \subseteq df_condensed.cols
    /\ \E r \in df_condensed.rows :
          /\ r[Rename("Event", 2)] # NaNEvent
          /\ r[Rename("Event", 1)] # NaNEvent
          /\ RowOfPath(r[Rename("Event", 2)]).Endtime = NaT
          /\ RowOfPath(r[Rename("Event", 1)]).Endtime = NaT
          /\ r[Rename("Endtime", 0)] = EndtimeAt(0)
          /\ r[Rename("Endtime", 1)] = EndtimeAt(0)
          /\ r[Rename("Endtime", 2)] = EndtimeAt(0)

(* A 3-level hierarchy in which only the roots have an explicit end time. *)
OnlyRootsClosed ==
    /\ LevelsOf(table) = {0, 1, 2}
    /\ \A r \in table : (r.Endtime # NaT) <=> (r.Level = 0)
    /\ \A r \in table : r.Level > 0 => AncestorPath(r.Path, r.Level - 1) \in TablePaths

(* C12: for a 3-level hierarchy in which only the root has an explicit end
   time, the condensed table has an Endtime column for each of the three
   levels and the three values are the same in every row. *)
C12_ThreeEqualEndtimeColumns ==
    (cpc = "done" /\ OnlyRootsClosed) =>
        /\ {Rename("Endtime", l) : l \in 0..2} \subseteq df_condensed.cols
        /\ \A r \in df_condensed.rows :
              /\ r[Rename("Endtime", 1)] = r[Rename("Endtime", 0)]
              /\ r[Rename("Endtime", 2)] = r[Rename("Endtime", 0)]

(* C14: condense completes and returns a table for every hierarchy table
   with at least one row, whatever levels or columns are empty. *)
C14_CondenseNeverRaises ==
    table # {} => cpc # "raised"

(* str.split("\\", expand=True).loc[:, 4:] : the pieces from label 4 on *)
KeyPieces(p) == SubSeq(Split(p), 5, Len(Split(p)))
IsRootPath(p) == \E n \in Names : p = GetPath(<<n>>)

(* C16: in every row of a hierarchy table Level is the number of backslash
   separators of Path less 4, Level >= 0 and a root has Level 0; the split
   of Path in condense gives exactly Level+1 key columns for the row, and
   the rows of a level carry them in the running table. *)
C16_LevelIsSeparatorsMinusFour ==
    /\ \A r \in table :
          /\ r.Level = CountSep(r.Path) - 4
          /\ r.Level >= 0
          /\ IsRootPath(r.Path) => r.Level = 0
          /\ Len(KeyPieces(r.Path)) = r.Level + 1
    /\ cpc = "loop" =>
          \A r \in df_condensed.rows : \A l \in EventLevels :
              r[Rename("Event", l)] # NaNEvent =>
                  /\ {KeyCol(k) : k \in 0..l} \subseteq df_condensed.cols
                  /\ \A k \in 0..l : r[KeyCol(k)] = KeyPieces(r[Rename("Event", l)])[k + 1]

C16_Witness ==
    /\ cpc = "loop"
    /\ \E r \in df_condensed.rows :
          /\ Rename("Event", 2) \in df_condensed.cols
          /\ r[Rename("Event", 2)] # NaNEvent
          /\ LevelOf(r[Rename("Event", 2)]) = 2
          /\ {k \in 0..MaxLevel : KeyCol(k) \in df_condensed.cols /\ r[KeyCol(k)] # NaNKey} = 0..2

HasBracket(c) == \E i \in DOMAIN c.s : c.s[i] = "["
Suffix(lvl) == <<" ", "[">> \o Str(lvl) \o <<"]">>

(* C13: the rename of condense gives every column of level L that is not a
   key column the suffix " [L]" exactly once: an int-named key column and a
   name that has a bracket already are left as they are, and the rename of
   a renamed list of columns changes nothing. *)
C13_RenameSuffixesOnce ==
    [][(cpc = "loop" /\ columns' # columns) =>
          LET before == DfLevelColumns(table, level)
          IN /\ Len(columns') = Len(before)
             /\ \A i \in DOMAIN before :
                   /\ (before[i].isint \/ HasBracket(before[i])) => columns'[i] = before[i]
                   /\ (~before[i].isint /\ ~HasBracket(before[i])) =>
                         /\ columns'[i] = StrName(before[i].s \o Suffix(level))
                         /\ Cardinality({j \in DOMAIN columns'[i].s : columns'[i].s[j] = "["}) = 1
                   /\ RenameColumn(columns'[i], level) = columns'[i]
             /\ RenameColumns(columns', level) = columns'
             /\ RenameColumns(RenameColumns(before, level), level) = RenameColumns(before, level)]_vars

C13_Witness ==
    /\ cpc = "loop"
    /\ level = 1
    /\ \E i, j, k \in DOMAIN columns :
          /\ columns[i] = StrName(<<"Endtime", " ", "[", "0", "]">>)
          /\ columns[j] = StrName(AttributeName)
          /\ columns[k] = IntName(0)

----------------------------------------------------------------------------
(* PI.py: tags and their resolution.  A string is the sequence of its
   characters. *)
StrItem(name) == [isTag |-> FALSE, name |-> name, via |-> "none"]
TagObject(name, via) == [isTag |-> TRUE, name |-> name, via |-> via]

(* the points of the data server *)
KnownTags == {<<"A">>, <<"B">>}

TagsFound(tags) == [ok |-> TRUE, tags |-> tags, err |-> NoError]
TagsError(type, msg, arg) ==
    [ok |-> FALSE, tags |-> <<>>, err |-> [type |-> type, msg |-> msg, arg |-> arg]]

(* AF.PI.PIPoint.FindPIPoints(self.connection, str(query), source, None) *)
FindPIPoints(query) ==
    IF query \in KnownTags THEN <<TagObject(query, "dataserver")>> ELSE <<>>

(* faulty variant of find_tags: every query is run and the last one without
   a point is reported *)
RECURSIVE find_tags_last(_)
find_tags_last(query) ==
    IF query = <<>> THEN TagsFound(<<>>)
    ELSE LET x == Head(query)
             rest == find_tags_last(Tail(query))
         IN IF ~rest.ok THEN rest
            ELSE IF x.isTag
            THEN TagsError("TypeError", "Argument query must be either a string or a list of strings", <<>>)
            ELSE IF FindPIPoints(x.name) = <<>>
            THEN TagsError("AttributeError", "No tags were found for query", x.name)
            ELSE TagsFound(FindPIPoints(x.name) \o rest.tags)

(* PIServer.find_tags of a list: the queries are run in list order *)
RECURSIVE find_tags(_)
find_tags(query) ==
    IF query = <<>> THEN TagsFound(<<>>)
    ELSE LET x == Head(query)
         IN IF x.isTag
            THEN TagsError("TypeError", "Argument query must be either a string or a list of strings", <<>>)
            ELSE IF FindPIPoints(x.name) = <<>>
            THEN TagsError("AttributeError", "No tags were found for query", x.name)
            ELSE LET rest == find_tags(Tail(query))
                 IN IF rest.ok THEN TagsFound(FindPIPoints(x.name) \o rest.tags) ELSE rest

(* faulty variant of convert_to_TagList: strings are looked up whether or
   not a dataserver is given *)
convert_to_TagList_unchecked(tl, server) ==
    IF tl.bare THEN TagsError("Exception", "Tag(s) need to be inside a list", <<>>)
    ELSE IF \A i \in DOMAIN tl.items : tl.items[i].isTag THEN TagsFound(tl.items)
    ELSE find_tags(tl.items)

(* convert_to_TagList(tag_list, dataserver) *)
convert_to_TagList(tl, server) ==
    IF tl.bare THEN TagsError("Exception", "Tag(s) need to be inside a list", <<>>)
    ELSE IF \A i \in DOMAIN tl.items : tl.items[i].isTag THEN TagsFound(tl.items)
    ELSE IF server THEN find_tags(tl.items)
    ELSE TagsError("AttributeError",
                   "Specifiy a dataserver argument when using tags in string format", <<>>)

----------------------------------------------------------------------------
(* PIAF.py: interpol_discrete_extract and summary_extract of EventHierarchy
   and CondensedEventHierarchy *)
TagColumn == <<"T", "a", "g">>
MissingColumn == <<"N", "o">>
Columns == {<<"E", "v", "e", "n", "t">>, TagColumn}

ListArg(items) == [bare |-> FALSE, items |-> items]
BareArg(string) == [bare |-> TRUE, items |-> <<StrItem(string)>>]

(* len(tag_list) and tag_list[0], of a list or of a string *)
ArgLen(tl) == IF tl.bare THEN Len(tl.items[1].name) ELSE Len(tl.items)
ArgFirst(tl) == IF tl.bare THEN StrItem(<<tl.items[1].name[1]>>) ELSE tl.items[1]

(* faulty variant of the column test: any name passes *)
IsColumnAny(item) == TRUE

(* tag_list[0] in df.columns *)
IsColumn(item) == ~item.isTag /\ item.name \in Columns

(* df[...].str.contains(",") *)
ContainsComma(cell) == \E i \in DOMAIN cell : cell[i] = ","

(* faulty variant of the split: the cell is taken as one name *)
SplitCommaWhole(cell) == <<cell>>

(* str.split(",") *)
RECURSIVE SplitComma(_)
SplitComma(cell) ==
    IF ~ContainsComma(cell) THEN <<cell>>
    ELSE LET i == CHOOSE k \in DOMAIN cell : cell[k] = "," /\ \A j \in 1..(k - 1) : cell[j] # ","
         IN <<SubSeq(cell, 1, i - 1)>> \o SplitComma(SubSeq(cell, i + 1, Len(cell)))

(* tg.replace(" ", "").split(",") *)
CellArg(cell) ==
    LET IsNotSpace(c) == c # " "
        names == SplitComma(SelectSeq(cell, IsNotSpace))
    IN ListArg([i \in DOMAIN names |-> StrItem(names[i])])

(* lines 1922-1930, 2722-2730: one TagList per cell, the cells in row order;
   the first cell that fails ends the loop *)
RECURSIVE ResolveCells(_, _)
ResolveCells(cells, server) ==
    IF cells = <<>> THEN [ok |-> TRUE, lists |-> <<>>, err |-> NoError]
    ELSE LET r == convert_to_TagList(CellArg(Head(cells)), server)
         IN IF ~r.ok THEN [ok |-> FALSE, lists |-> <<>>, err |-> r.err]
            ELSE LET rest == ResolveCells(Tail(cells), server)
                 IN IF rest.ok
                    THEN [ok |-> TRUE, lists |-> <<r.tags>> \o rest.lists, err |-> NoError]
                    ELSE rest

IsInterpol(m) == m.name = "interpol_discrete_extract"

Raised(type, msg, arg) ==
    [pc |-> "raised", err |-> [type |-> type, msg |-> msg, arg |-> arg], lists |-> <<>>]
Proceed(lists) == [pc |-> "rows", err |-> NoError, lists |-> lists]

(* max(df["Event"].apply(lambda x: x.duration)) of a table without rows *)
PerfCheckRaises(df) == Len(df) = 0
EmptyMax == Raised("ValueError", "max() arg is an empty sequence", <<>>)

(* col=False: the tag list is converted once *)
StartList(m, tl, server, df) ==
    IF PerfCheckRaises(df) THEN EmptyMax
    ELSE LET r == convert_to_TagList(tl, server)
         IN IF r.ok THEN Proceed([i \in DOMAIN df |-> r.tags])
            ELSE Raised(r.err.type, r.err.msg, r.err.arg)

(* col=True: the tests of tag_list and of the cells that come before the
   rows are visited *)
StartColumn(m, tl, server, df) ==
    IF m # [cls |-> "CondensedEventHierarchy", name |-> "interpol_discrete_extract"]
          /\ PerfCheckRaises(df)
    THEN EmptyMax
    ELSE IF ArgLen(tl) > 1
    THEN Raised("AttributeError", "You can only specify a single tag column at a time", <<>>)
    ELSE IF ArgLen(tl) = 0
    THEN Raised("IndexError", "list index out of range", <<>>)
    ELSE IF ~IsColumn(ArgFirst(tl))
    THEN Raised("AttributeError", "not a valid column", ArgFirst(tl).name)
    ELSE IF PerfCheckRaises(df) THEN EmptyMax
    ELSE IF IsInterpol(m)
    THEN (IF \E i \in DOMAIN df : ContainsComma(df[i])
          THEN Raised("AttributeError", "Cell can only contain one Tag at a time", <<>>)
          ELSE Proceed(<<>>))
    ELSE LET r == ResolveCells(df, server)
         IN IF r.ok THEN Proceed(r.lists) ELSE Raised(r.err.type, r.err.msg, r.err.arg)

InitExtract ==
    /\ xop \in [cls : {"EventHierarchy", "CondensedEventHierarchy"},
                name : {"interpol_discrete_extract", "summary_extract"}]
    /\ col \in BOOLEAN
    /\ dataserver \in BOOLEAN
    /\ IF col
       THEN /\ tag_list \in
                   {ListArg(l) : l \in SeqsUpTo({StrItem(TagColumn), StrItem(MissingColumn)},
                                                MaxTags)}
                       \cup {BareArg(<<"A">>), BareArg(TagColumn)}
            /\ xdf \in SeqsUpTo({<<"A">>, <<"X">>, <<"Y">>, <<"A", ",", " ", "B">>,
                                  <<"B", ",", " ", "X">>, <<"X", ",", " ", "Y">>}, MaxRows)
       ELSE /\ tag_list \in
                   {ListArg(l) : l \in SeqsUpTo({StrItem(<<"A">>), StrItem(<<"X">>),
                                                 StrItem(<<"Y">>), TagObject(<<"A">>, "given")},
                                                MaxTags)}
                       \cup {BareArg(<<"A">>), BareArg(TagColumn)}
            /\ xdf \in SeqsUpTo({<<"A">>}, MaxRows)
    /\ xpc = "start"
    /\ xerr = NoError
    /\ taglist = <<>>
    /\ xi = 0
    /\ calls = <<>>
    /\ xresult = <<>>
    /\ IdleThreading
    /\ IdleCondense
    /\ IdleHierarchy
    /\ IdleExcept("")

(* the method up to the first row: lines 1752-1786, 1890-1930, 2204-2284,
   2656-2730 *)
ExtractStart ==
    /\ xpc = "start"
    /\ LET out == IF col THEN StartColumn(xop, tag_list, dataserver, xdf)
                  ELSE StartList(xop, tag_list, dataserver, xdf)
       IN /\ xpc' = out.pc
          /\ xerr' = out.err
          /\ taglist' = out.lists
    /\ xi' = 1
    /\ UNCHANGED <<xop, tag_list, col, dataserver, xdf, calls, xresult>>
    /\ UNCHANGED <<thrVars, cndVars, hieVars, restVars>>

(* df.apply: the extraction call of one row; with col=True
   interpolated_values converts the cell of the row first *)
ExtractRow ==
    /\ xpc = "rows"
    /\ xi <= Len(xdf)
    /\ LET r == IF col /\ IsInterpol(xop)
                THEN convert_to_TagList(ListArg(<<StrItem(xdf[xi])>>), dataserver)
                ELSE TagsFound(taglist[xi])
       IN IF r.ok
          THEN /\ calls' = Append(calls, [row |-> xi, tags |-> r.tags])
               /\ xi' = xi + 1
               /\ UNCHANGED <<xpc, xerr>>
          ELSE /\ xpc' = "raised"
               /\ xerr' = r.err
               /\ UNCHANGED <<calls, xi>>
    /\ UNCHANGED <<xop, tag_list, col, dataserver, xdf, taglist, xresult>>
    /\ UNCHANGED <<thrVars, cndVars, hieVars, restVars>>

(* the rows of the calls are exploded into the table returned; line 2301
   converts the cells once more *)
ExtractReturn ==
    /\ xpc = "rows"
    /\ xi > Len(xdf)
    /\ LET r == IF col /\ xop = [cls |-> "CondensedEventHierarchy", name |-> "interpol_discrete_extract"]
                THEN convert_to_TagList(ListArg([i \in DOMAIN xdf |-> StrItem(xdf[i])]), dataserver)
                ELSE TagsFound(<<>>)
       IN IF r.ok
          THEN /\ xresult' = calls
               /\ xpc' = "done"
               /\ UNCHANGED xerr
          ELSE /\ xpc' = "raised"
               /\ xerr' = r.err
               /\ UNCHANGED xresult
    /\ UNCHANGED <<xop, tag_list, col, dataserver, xdf, taglist, xi, calls>>
    /\ UNCHANGED <<thrVars, cndVars, hieVars, restVars>>

NextExtract ==
    \/ ExtractStart
    \/ ExtractRow
    \/ ExtractReturn

SpecExtract == InitExtract /\ [][NextExtract]_vars

----------------------------------------------------------------------------
(* Properties of tag resolution and of the extracts *)
Returned == xpc \in {"rows", "done"}
AllStrings(tl) == ~tl.bare /\ \A i \in DOMAIN tl.items : ~tl.items[i].isTag
SingleTagColumn == col /\ tag_list = ListArg(<<StrItem(TagColumn)>>)
NamesOf(tags) == [i \in DOMAIN tags |-> tags[i].name]

(* the identifiers handed to the data server, in the order of the list or
   of the rows of the column *)
CellNames(cell) == NamesOf(CellArg(cell).items)
Identifiers ==
    IF col THEN Flatten([i \in DOMAIN xdf |-> CellNames(xdf[i])])
    ELSE NamesOf(tag_list.items)
Unresolved(ids) == {i \in DOMAIN ids : ids[i] \notin KnownTags}
FirstUnresolved(ids) ==
    ids[CHOOSE i \in Unresolved(ids) : \A j \in Unresolved(ids) : i <= j]

(* the inputs with which the method reaches the resolution of every
   identifier *)
ResolutionReached ==
    /\ dataserver
    /\ Len(xdf) > 0
    /\ IF col
       THEN SingleTagColumn /\ (IsInterpol(xop) => \A i \in DOMAIN xdf : ~ContainsComma(xdf[i]))
       ELSE AllStrings(tag_list)

NotFound(x) ==
    [type |-> "AttributeError", msg |-> "No tags were found for query", arg |-> x]

(* C17: an identifier the data server cannot resolve makes the extract fail
   with 'No tags were found for query: X', X the first such identifier in
   the order of the list or of the rows of the tag column; nothing is
   returned, neither a TagList nor a table. *)
C17_NotFoundNamesFirstUnresolved ==
    /\ (xpc = "raised" /\ xerr.msg = "No tags were found for query") =>
          /\ Unresolved(Identifiers) # {}
          /\ xerr = NotFound(FirstUnresolved(Identifiers))
    /\ (ResolutionReached /\ Unresolved(Identifiers) # {}) =>
          /\ xpc # "done"
          /\ xresult = <<>>
          /\ (~col \/ ~IsInterpol(xop)) => (calls = <<>> /\ xpc \in {"start", "raised"})
          /\ xpc = "raised" => (xerr = NotFound(FirstUnresolved(Identifiers)) /\ taglist = <<>>)
          /\ (col /\ IsInterpol(xop) /\ xpc = "rows") =>
                \A j \in 1..(xi - 1) : j \notin Unresolved(Identifiers)

C17_Witness ==
    /\ xpc = "raised"
    /\ col
    /\ IsInterpol(xop)
    /\ xdf = <<(<<"A">>), <<"X">>>>
    /\ Len(calls) = 1
    /\ xresult = <<>>
    /\ xerr = NotFound(<<"X">>)

TwoTagCell == <<"A", ",", " ", "B">>
TwoTagRows == {i \in DOMAIN xdf : xdf[i] = TwoTagCell}
OnlyKnownCells == \A i \in DOMAIN xdf : xdf[i] \in {<<"A">>, TwoTagCell}

(* C18 (as stated): with a cell "A, B" in the tag column,
   interpol_discrete_extract with col=True extracts both tags for the row
   and summary_extract with col=True raises and gives no summary. *)
C18_TwoTagsInterpolOnly ==
    (SingleTagColumn /\ dataserver /\ TwoTagRows # {} /\ OnlyKnownCells) =>
        /\ IsInterpol(xop) =>
              /\ xpc # "raised"
              /\ xpc = "done" =>
                    \A i \in TwoTagRows : NamesOf(xresult[i].tags) = <<(<<"A">>), <<"B">>>>
        /\ ~IsInterpol(xop) => (xpc # "done" /\ xresult = <<>>)

(* C18 (amended): with a cell "A, B" in the tag column,
   interpol_discrete_extract with col=True raises 'Cell can only contain one
   Tag at a time' before any extraction call; summary_extract with col=True
   and a dataserver that has both tags requests the summary of the row for
   tag A and tag B. *)
C18_TwoTagsSummaryOnly ==
    (SingleTagColumn /\ TwoTagRows # {}) =>
        /\ (IsInterpol(xop) /\ xpc # "start") =>
              /\ xpc = "raised"
              /\ xerr = [type |-> "AttributeError",
                         msg |-> "Cell can only contain one Tag at a time", arg |-> <<>>]
              /\ calls = <<>>
              /\ xresult = <<>>
        /\ (~IsInterpol(xop) /\ dataserver /\ OnlyKnownCells) =>
              /\ xpc # "raised"
              /\ \A k \in DOMAIN calls :
                    calls[k].row \in TwoTagRows =>
                        /\ NamesOf(calls[k].tags) = <<(<<"A">>), <<"B">>>>
                        /\ \A t \in DOMAIN calls[k].tags : calls[k].tags[t].via = "dataserver"
              /\ xpc = "done" => (xresult = calls /\ Len(xresult) = Len(xdf))

C18_Witness ==
    /\ xpc = "done"
    /\ SingleTagColumn
    /\ ~IsInterpol(xop)
    /\ xdf = <<(<<"A">>), TwoTagCell>>
    /\ NamesOf(xresult[2].tags) = <<(<<"A">>), <<"B">>>>

(* C19 (as stated): a list of string identifiers without a dataserver is
   never converted to a TagList; a string that is not in a list is always
   rejected; with a dataserver every tag of the TagList was found through
   it. *)
C19_StringsNeedDataserver ==
    ~col =>
        /\ (AllStrings(tag_list) /\ ~dataserver) => ~Returned
        /\ tag_list.bare => ~Returned
        /\ (AllStrings(tag_list) /\ dataserver /\ Returned) =>
              \A i \in DOMAIN taglist : \A t \in DOMAIN taglist[i] :
                  taglist[i][t].via = "dataserver"

(* C19 (amended): a list of one or more string identifiers without a
   dataserver is never converted to a TagList, the conversion fails with
   'Specifiy a dataserver argument when using tags in string format'; the
   empty list is converted to the empty TagList with or without a
   dataserver; a string that is not in a list is always rejected; with a
   dataserver every tag of the TagList was found through it. *)
C19_NonEmptyStringsNeedDataserver ==
    ~col =>
        /\ (AllStrings(tag_list) /\ Len(tag_list.items) > 0 /\ ~dataserver) =>
              /\ ~Returned
              /\ (xpc = "raised" /\ Len(xdf) > 0) =>
                    xerr.msg = "Specifiy a dataserver argument when using tags in string format"
        /\ (tag_list = ListArg(<<>>) /\ Len(xdf) > 0 /\ xpc # "start") =>
              (Returned /\ \A i \in DOMAIN taglist : taglist[i] = <<>>)
        /\ tag_list.bare =>
              /\ ~Returned
              /\ (xpc = "raised" /\ Len(xdf) > 0) => xerr.msg = "Tag(s) need to be inside a list"
        /\ (AllStrings(tag_list) /\ dataserver /\ Returned) =>
              \A i \in DOMAIN taglist : \A t \in DOMAIN taglist[i] :
                  /\ taglist[i][t].via = "dataserver"
                  /\ taglist[i][t].name = tag_list.items[t].name

C19_Witness ==
    /\ xpc = "raised"
    /\ ~col
    /\ ~dataserver
    /\ tag_list = ListArg(<<StrItem(<<"A">>)>>)
    /\ Len(xdf) > 0
    /\ xerr.msg = "Specifiy a dataserver argument when using tags in string format"
    /\ calls = <<>>

(* C20: with col=True the four extract methods raise, and no extraction
   call has been issued, when the named column is not a column of the table
   or when more than one column name is given. *)
C20_ColumnModeRejectsBadColumn ==
    (/\ col
     /\ ~tag_list.bare
     /\ \/ Len(tag_list.items) > 1
        \/ (Len(tag_list.items) = 1 /\ tag_list.items[1].name \notin Columns)) =>
        /\ calls = <<>>
        /\ xresult = <<>>
        /\ xpc \in {"start", "raised"}
        /\ xpc = "raised" => xerr.type \in {"AttributeError", "ValueError"}
        /\ (xpc = "raised" /\ Len(xdf) > 0) =>
              xerr.msg = IF Len(tag_list.items) > 1
                         THEN "You can only specify a single tag column at a time"
                         ELSE "not a valid column"

C20_Witness ==
    /\ xpc = "raised"
    /\ col
    /\ tag_list = ListArg(<<StrItem(MissingColumn)>>)
    /\ Len(xdf) > 0
    /\ xerr = [type |-> "AttributeError", msg |-> "not a valid column", arg |-> MissingColumn]
    /\ calls = <<>>

----------------------------------------------------------------------------
(* PIAF.py: EventHierarchy.add_ref_elements *)

(* np.nan in the Template column (line 1523) and in a cell left unset *)
NaNTemplate == "nan"
NaNCell == "NaN"

(* a row of self.df; ref_elements is Event.ref_elements, the names of the
   referenced elements of the row's event *)
RefRows ==
    [Level : {0, 1}, Template : {"T", "U", NaNTemplate},
     ref_elements : {<<>>, <<"R1">>, <<"R1", "R2">>}]

(* the template_name argument: a template name, None, or an int level; kind
   "nan" is np.nan read from the Template column *)
TemplateArg(kind, name, lvl) == [kind |-> kind, name |-> name, level |-> lvl]

TemplateArgs ==
    {TemplateArg("name", t, 0) : t \in {"T", "U"}} \cup {TemplateArg("none", "", 0)}
        \cup {TemplateArg("level", "", n) : n \in 0..2}

(* lines 1615-1618: rows of the level, .iloc[0] of their Template *)
RowsAtLevel(df, n) == {i \in DOMAIN df : df[i].Level = n}

TemplateAtLevel(df, n) ==
    LET first == CHOOSE i \in RowsAtLevel(df, n) : \A j \in RowsAtLevel(df, n) : i <= j
    IN  IF df[first].Template = NaNTemplate
        THEN TemplateArg("nan", "", 0)
        ELSE TemplateArg("name", df[first].Template, 0)

(* lines 1620-1631: the boolean mask; nan == x is False for every x *)
RefScope(df, tn) ==
    CASE tn.kind = "none" -> {i \in DOMAIN df : df[i].Template = NaNTemplate}
      [] tn.kind = "name" -> {i \in DOMAIN df : df[i].Template = tn.name}
      [] OTHER -> {}

(* .apply(lambda x: x.ref_elements).apply(pd.Series): one column per
   position, as many columns as the longest list *)
MaxRefs(df, scope) ==
    IF scope = {} THEN 0
    ELSE CHOOSE k \in {Len(df[i].ref_elements) : i \in scope} :
             \A i \in scope : Len(df[i].ref_elements) <= k

(* lines 1637-1644: "Referenced_el" + " [" + str(template_name) + "]" + "("
   + str(col) + ")" *)
RefColumnName(tn, c) ==
    <<"Referenced_el", " ", "[",
      CASE tn.kind = "none" -> "None" [] tn.kind = "nan" -> "nan" [] OTHER -> tn.name,
      "]", "(">> \o Str(c) \o <<")">>

(* self.df[name] = ref_el[col]: aligned on the index, unset elsewhere *)
RefColumns(df, tn) ==
    [c \in 1..MaxRefs(df, RefScope(df, tn)) |->
        [name |-> RefColumnName(tn, c - 1),
         cells |-> [i \in DOMAIN df |->
                       IF i \in RefScope(df, tn) /\ c <= Len(df[i].ref_elements)
                       THEN df[i].ref_elements[c]
                       ELSE NaNCell]]]

NoResults == [type |-> "AttributeError",
              msg |-> "No results found for the specified template",
              arg |-> <<>>]

InitRefElements ==
    /\ rdf \in SeqsUpTo(RefRows, MaxRows)
    /\ template_name \in TemplateArgs
    /\ rpc = "call"
    /\ rerr = NoError
    /\ ref_columns = <<>>
    /\ IdleThreading
    /\ IdleCondense
    /\ IdleHierarchy
    /\ IdleExtract
    /\ IdleExcept("RefElements")

(* the whole method; ref_el.empty holds when no row is in scope or no row in
   scope has a referenced element *)
AddRefElements ==
    /\ rpc = "call"
    /\ IF template_name.kind = "level" /\ RowsAtLevel(rdf, template_name.level) = {}
       THEN /\ rpc' = "raised"
            /\ rerr' = [type |-> "IndexError",
                        msg |-> "single positional indexer is out-of-bounds",
                        arg |-> <<>>]
            /\ UNCHANGED ref_columns
       ELSE LET tn == IF template_name.kind = "level"
                      THEN TemplateAtLevel(rdf, template_name.level)
                      ELSE template_name
            IN  IF MaxRefs(rdf, RefScope(rdf, tn)) = 0
                THEN /\ rpc' = "raised"
                     /\ rerr' = NoResults
                     /\ UNCHANGED ref_columns
                ELSE /\ rpc' = "returned"
                     /\ ref_columns' = RefColumns(rdf, tn)
                     /\ UNCHANGED rerr
    /\ UNCHANGED <<rdf, template_name>>
    /\ UNCHANGED <<thrVars, cndVars, hieVars, extVars, conVars, timVars, colVars, sumVars>>

NextRefElements == AddRefElements

SpecRefElements == InitRefElements /\ [][NextRefElements]_vars

(* C21: add_ref_elements raises "No results found for the specified
   template" and adds no column when no row in scope has a referenced
   element, also when no row matches the scope (a template name, None for
   rows without template, or a level); otherwise it returns having added
   exactly the columns (0)..(k-1), k the largest number of referenced
   elements of a row in scope, rows outside the scope left missing. *)
RowsInScope ==
    CASE template_name.kind = "level" -> RowsAtLevel(rdf, template_name.level)
      [] template_name.kind = "none" -> {i \in DOMAIN rdf : rdf[i].Template = NaNTemplate}
      [] OTHER -> {i \in DOMAIN rdf : rdf[i].Template = template_name.name}

ScopeLabel ==
    IF template_name.kind = "level" /\ RowsInScope # {}
    THEN TemplateAtLevel(rdf, template_name.level)
    ELSE template_name

C21_RefElementsOrNoResults ==
    rpc # "call" =>
        IF \A i \in RowsInScope : rdf[i].ref_elements = <<>>
        THEN rpc = "raised" /\ rerr = NoResults /\ ref_columns = <<>>
        ELSE /\ rpc = "returned"
             /\ Len(ref_columns) = MaxRefs(rdf, RowsInScope)
             /\ \A c \in DOMAIN ref_columns :
                    /\ ref_columns[c].name = RefColumnName(ScopeLabel, c - 1)
                    /\ \A i \in DOMAIN rdf :
                           ref_columns[c].cells[i] =
                               IF i \in RowsInScope /\ c <= Len(rdf[i].ref_elements)
                               THEN rdf[i].ref_elements[c]
                               ELSE NaNCell

----------------------------------------------------------------------------
(* PIAF.py: CondensedEventHierarchy.interpol_continuous_extract,
   recorded_extract and plot_continuous_extract *)

(* the times of the events; datetime.utcnow() is later than all of them *)
Ticks == 1..3
Now == Cardinality(Ticks) + 1

(* a row whose bottom-level Event cell is np.nan *)
NaNRow == [id |-> 0, Procedure |-> "", starttime |-> NaT, endtime |-> NaT]

(* the bottom-level event of row i: Procedure is its top_event, endtime is
   NaT (np.nan of timestamp_to_index) when the event is open-ended *)
BottomEvents(i) ==
    {e \in [id : {i}, Procedure : {"P", "Q"}, starttime : Ticks, endtime : Ticks \cup {NaT}] :
        e.endtime = NaT \/ e.starttime <= e.endtime}

CondensedTables ==
    UNION {{t \in [1..n -> UNION {BottomEvents(i) : i \in 1..n} \cup {NaNRow}] :
                \A i \in 1..n : t[i] = NaNRow \/ t[i].id = i} : n \in 0..MaxRows}

(* validate, lines 2143-2172: the types found in the Event column *)
EventTypes(df) ==
    {IF df[i] = NaNRow THEN "float" ELSE "Event" : i \in DOMAIN df}

(* sort_values(by=[col_start], ascending=True): rows of equal start time
   keep their order *)
SortByStart(df) ==
    LET rank(i) == 1 + Cardinality({j \in DOMAIN df :
                        \/ df[j].starttime < df[i].starttime
                        \/ df[j].starttime = df[i].starttime /\ j < i})
    IN  [k \in DOMAIN df |-> df[CHOOSE i \in DOMAIN df : rank(i) = k]]

(* groupby("Procedure"): the group keys in sorted order *)
GroupKeys(df_base) ==
    LET Present(p) == \E i \in DOMAIN df_base : df_base[i].Procedure = p
    IN  SelectSeq(<<"P", "Q">>, Present)

(* faulty variant: the latest end time of the group *)
GroupEndLatest(df_proc) ==
    IF \E i \in DOMAIN df_proc : df_proc[i].endtime = NaT
    THEN NaT
    ELSE CHOOSE b \in {df_proc[i].endtime : i \in DOMAIN df_proc} :
             \A i \in DOMAIN df_proc : df_proc[i].endtime <= b

(* df_proc["Event"].iloc[-1].endtime *)
GroupEnd(df_proc) == df_proc[Len(df_proc)].endtime

(* to_af_time_range: a float end time stands for the current time *)
EffectiveEnd(endtime) == IF endtime = NaT THEN Now ELSE endtime

(* the loop `for event in df_base["Event"]`: every event of the table
   overwrites the label of the points in its interval; a comparison with a
   nan end time selects nothing *)
Labelled(df_base, pts) ==
    LET Hits(t) == {i \in DOMAIN df_base :
                       /\ df_base[i].starttime <= t
                       /\ df_base[i].endtime # NaT
                       /\ t <= df_base[i].endtime}
        LabelOf(t) == IF Hits(t) = {} THEN NaNRow
                      ELSE df_base[CHOOSE i \in Hits(t) : \A j \in Hits(t) : j <= i]
    IN  {[Procedure |-> pt.Procedure, Time |-> pt.Time, Event |-> LabelOf(pt.Time)] : pt \in pts}

HasOpenEnded(df_base) == \E i \in DOMAIN df_base : df_base[i].endtime = NaT

InitContinuous ==
    /\ kop \in {"interpol_continuous_extract", "recorded_extract", "plot_continuous_extract"}
    /\ caller_df \in CondensedTables
    /\ self_df = <<>>
    /\ aliased = TRUE
    /\ nan_raises \in BOOLEAN
    /\ kpc = "call"
    /\ kerr = ""
    /\ procs = <<>>
    /\ queries = <<>>
    /\ points = {}
    /\ IdleThreading
    /\ IdleCondense
    /\ IdleHierarchy
    /\ IdleExtract
    /\ IdleExcept("Continuous")

(* __init__ and validate of the accessor, then the method up to the loop
   over the groups: the in-place sort acts on the caller's table unless
   validate has replaced self.df by a filtered copy *)
ContinuousStart ==
    /\ kpc = "call"
    /\ IF EventTypes(caller_df) \notin {{"Event"}, {"Event", "float"}}
       THEN /\ kpc' = "raised"
            /\ kerr' = "AttributeError"
            /\ UNCHANGED <<caller_df, self_df, aliased, procs>>
       ELSE LET IsEventRow(r) == r # NaNRow
            IN  /\ aliased' = (EventTypes(caller_df) = {"Event"})
                /\ self_df' = SortByStart(SelectSeq(caller_df, IsEventRow))
                /\ caller_df' = IF aliased' THEN self_df' ELSE caller_df
                /\ procs' = GroupKeys(self_df')
                /\ kpc' = "groups"
                /\ UNCHANGED kerr
    /\ UNCHANGED <<kop, nan_raises, queries, points>>
    /\ UNCHANGED <<thrVars, cndVars, hieVars, extVars, refVars, timVars, colVars, sumVars>>

(* one pass of `for proc, df_proc in df_base.groupby("Procedure")`: the
   query, its values one per tick of the range *)
ContinuousGroup ==
    /\ kpc = "groups"
    /\ procs # <<>>
    /\ LET proc == Head(procs)
           InGroup(r) == r.Procedure = proc
           df_proc == SelectSeq(self_df, InGroup)
           starttime == df_proc[1].starttime
           endtime == GroupEnd(df_proc)
           values == {[Procedure |-> proc, Time |-> t, Event |-> NaNRow] :
                         t \in {u \in 1..Now : starttime <= u /\ u <= EffectiveEnd(endtime)}}
       IN  /\ queries' = Append(queries, [Procedure |-> proc, starttime |-> starttime,
                                          endtime |-> endtime])
           /\ IF kop = "interpol_continuous_extract"
              THEN /\ points' = points \cup values
                   /\ procs' = Tail(procs)
                   /\ UNCHANGED <<kpc, kerr>>
              ELSE IF HasOpenEnded(self_df) /\ nan_raises
                   THEN /\ kpc' = "raised"
                        /\ kerr' = "TypeError"
                        /\ UNCHANGED <<points, procs>>
                   ELSE /\ points' = points \cup Labelled(self_df, values)
                        /\ procs' = Tail(procs)
                        /\ UNCHANGED <<kpc, kerr>>
    /\ UNCHANGED <<kop, caller_df, self_df, aliased, nan_raises>>
    /\ UNCHANGED <<thrVars, cndVars, hieVars, extVars, refVars, timVars, colVars, sumVars>>

(* after the loop: interpol_continuous_extract labels df_cont and returns
   it, the other two return the dict *)
ContinuousReturn ==
    /\ kpc = "groups"
    /\ procs = <<>>
    /\ IF kop = "interpol_continuous_extract"
       THEN IF HasOpenEnded(self_df) /\ nan_raises
            THEN /\ kpc' = "raised"
                 /\ kerr' = "TypeError"
                 /\ UNCHANGED points
            ELSE /\ points' = Labelled(self_df, points)
                 /\ kpc' = "returned"
                 /\ UNCHANGED kerr
       ELSE /\ kpc' = "returned"
            /\ UNCHANGED <<kerr, points>>
    /\ UNCHANGED <<kop, caller_df, self_df, aliased, nan_raises, procs, queries>>
    /\ UNCHANGED <<thrVars, cndVars, hieVars, extVars, refVars, timVars, colVars, sumVars>>

NextContinuous ==
    \/ ContinuousStart
    \/ ContinuousGroup
    \/ ContinuousReturn

SpecContinuous == InitContinuous /\ [][NextContinuous]_vars

(* the bottom-level events of the caller's table, by procedure *)
MemberEvents == {caller_df[i] : i \in DOMAIN caller_df} \ {NaNRow}

MembersOf(p) == {e \in MemberEvents : e.Procedure = p}

ProceduresOf == {e.Procedure : e \in MemberEvents}

FirstStart(p) ==
    CHOOSE a \in {e.starttime : e \in MembersOf(p)} :
        \A e \in MembersOf(p) : a <= e.starttime

LastStarting(p) ==
    {e \in MembersOf(p) : \A f \in MembersOf(p) : f.starttime <= e.starttime}

(* C22: the three continuous extracts issue exactly one query per
   procedure, from the start of the member that starts first to the end of
   the member that starts last. *)
C22_OneQueryPerProcedure ==
    kpc = "returned" =>
        /\ Len(queries) = Cardinality(ProceduresOf)
        /\ \A p \in ProceduresOf :
               \E k \in DOMAIN queries :
                   /\ queries[k].Procedure = p
                   /\ queries[k].starttime = FirstStart(p)
                   /\ \E e \in LastStarting(p) : queries[k].endtime = e.endtime

C22_Witness ==
    /\ kpc = "returned"
    /\ Len(queries) = 1
    /\ \E e, f \in MembersOf(queries[1].Procedure) :
           /\ e.starttime < f.starttime
           /\ f.endtime # NaT
           /\ e.endtime # NaT
           /\ f.endtime < e.endtime
           /\ queries[1].endtime = f.endtime

(* a time lies in the interval of an event; an open-ended event has no end *)
Contains(e, t) == e.starttime <= t /\ (e.endtime = NaT \/ t <= e.endtime)

(* C23: every returned point of a procedure's series is labelled with an
   event of that procedure whose [Start, End] contains its time, and has a
   missing Event when no event of the procedure contains it. *)
C23_PointsLabelledWithinProcedure ==
    kpc = "returned" =>
        \A pt \in points :
            IF \E e \in MembersOf(pt.Procedure) : Contains(e, pt.Time)
            THEN /\ pt.Event \in MembersOf(pt.Procedure)
                 /\ Contains(pt.Event, pt.Time)
            ELSE pt.Event = NaNRow

(* C29: the range queried for a procedure covers [Start, End] of each of
   its member events, an open-ended member being covered up to now. *)
C29_QueryCoversEveryMember ==
    kpc = "returned" =>
        \A e \in MemberEvents :
            \E k \in DOMAIN queries :
                /\ queries[k].Procedure = e.Procedure
                /\ queries[k].starttime <= e.starttime
                /\ EffectiveEnd(e.endtime) <= EffectiveEnd(queries[k].endtime)

(* C25: an extract leaves the caller's condensed table as it was: same
   rows, same order. *)
C25_CallerTableUnchanged == [][caller_df' = caller_df]_vars

----------------------------------------------------------------------------
(* time.py: timestamp_to_index and to_af_time_range; PIAF.py: Event.endtime
   and Event.interpolated_values *)

(* eventframe.EndTime.UtcTime: Millisecond in place of Microsecond *)
SystemDateTimes ==
    {DateTime(y, 12, d, h, 59, sec, ms) :
        y \in {2020, 9999}, d \in {30, 31}, h \in {0, 23}, sec \in {58, 59}, ms \in {0, 999}}

(* datetime(Year, ..., Millisecond * 1000) *)
ToDatetime(ts) ==
    DateTime(ts.Year, ts.Month, ts.Day, ts.Hour, ts.Minute, ts.Second, ts.Microsecond * 1000)

(* faulty variant: no date is taken for the maximum date *)
IsMaxDateNever(dt) == FALSE

(* line 87: == datetime(9999, 12, 31, 23, 59, 59) *)
IsMaxDate(dt) == dt = DateTime(9999, 12, 31, 23, 59, 59, 0)

(* .replace(tzinfo=pytz.utc).astimezone(local_tz) of a December date *)
AsTimezone(dt, off) ==
    IF dt.Hour + off >= 24
    THEN IF dt.Day = 31
         THEN [dt EXCEPT !.Year = dt.Year + 1, !.Month = 1, !.Day = 1, !.Hour = dt.Hour + off - 24]
         ELSE [dt EXCEPT !.Day = dt.Day + 1, !.Hour = dt.Hour + off - 24]
    ELSE IF dt.Hour + off < 0
         THEN [dt EXCEPT !.Day = dt.Day - 1, !.Hour = dt.Hour + off + 24]
         ELSE [dt EXCEPT !.Hour = dt.Hour + off]

(* the try block and `except: return np.nan`: astimezone raises
   OverflowError past year 9999 *)
timestamp_to_index(ts, off) ==
    IF IsMaxDate(ToDatetime(ts)) THEN NaNDate
    ELSE IF AsTimezone(ToDatetime(ts), off).Year > 9999 THEN NaNDate
    ELSE AsTimezone(ToDatetime(ts), off)

InitTime ==
    /\ timestamp \in SystemDateTimes
    /\ local_tz \in {-1, 0, 1}
    /\ tpc = "event"
    /\ terr = ""
    /\ endtime_cell = NaNDate
    /\ query_end = NaNDate
    /\ IdleThreading
    /\ IdleCondense
    /\ IdleHierarchy
    /\ IdleExtract
    /\ IdleExcept("Time")

(* get_event_hierarchy: df_events["Endtime"] = x.endtime *)
HierarchyEndtime ==
    /\ tpc = "event"
    /\ endtime_cell' = timestamp_to_index(timestamp, local_tz)
    /\ tpc' = "table"
    /\ UNCHANGED <<timestamp, local_tz, terr, query_end>>
    /\ UNCHANGED <<thrVars, cndVars, hieVars, extVars, refVars, conVars, colVars, sumVars>>

(* Event.interpolated_values of the row's event, lines 1195-1200, and
   to_af_time_range, lines 36-43: a float end time is replaced by the
   current time *)
EventInterpolatedValues ==
    /\ tpc = "table"
    /\ LET endtime == timestamp_to_index(timestamp, local_tz)
       IN  query_end' = IF endtime.nan THEN UtcNow ELSE endtime
    /\ tpc' = "queried"
    /\ UNCHANGED <<timestamp, local_tz, terr, endtime_cell>>
    /\ UNCHANGED <<thrVars, cndVars, hieVars, extVars, refVars, conVars, colVars, sumVars>>

NextTime ==
    \/ HierarchyEndtime
    \/ EventInterpolatedValues

SpecTime == InitTime /\ [][NextTime]_vars

(* C24: the maximum date 9999-12-31 23:59:59 converts to "no value", never
   to a concrete date and without an exception; the Endtime cell of an
   open-ended event is missing and its per-row extract queries up to the
   current time. *)
OpenEnded == ToDatetime(timestamp) = DateTime(9999, 12, 31, 23, 59, 59, 0)

C24_MaxDateIsNoValue ==
    OpenEnded =>
        /\ terr = ""
        /\ tpc \in {"table", "queried"} => endtime_cell = NaNDate
        /\ tpc = "queried" => query_end = UtcNow

C24_Witness ==
    /\ OpenEnded
    /\ local_tz = 0
    /\ tpc = "queried"
    /\ query_end = UtcNow

----------------------------------------------------------------------------
(* PIAF.py: the column names in EventHierarchy.condense, for a table that
   add_attributes has given the column "pH [Batch]" *)
MinLevel(L) == CHOOSE l \in L : \A m \in L : l <= m
MaxLevelOf(L) == CHOOSE l \in L : \A m \in L : l >= m

(* lines 1658-1677: the columns of df_level after the rename *)
DfLevelRenamed(lvl, ends, attrs) ==
    RenameColumns(LevelColumns(lvl, lvl \in ends, lvl \in attrs), lvl)

NonKeyNames(cols, on) == {cols[i] : i \in DOMAIN cols} \ on

(* pd.merge: a column that is on both sides and is not a key gets the
   suffix _x on the left and _y on the right *)
MergeColumns(left, right, on) ==
    LET overlap == NonKeyNames(left, on) \cap NonKeyNames(right, on)
        NotKey(c) == c \notin on
        rightRest == SelectSeq(right, NotKey)
    IN  [i \in DOMAIN left |->
            IF left[i] \in overlap THEN StrName(left[i].s \o <<"_x">>) ELSE left[i]]
        \o [i \in DOMAIN rightRest |->
               IF rightRest[i] \in overlap THEN StrName(rightRest[i].s \o <<"_y">>)
               ELSE rightRest[i]]

InitColumns ==
    /\ row_levels \in (SUBSET (0..MaxLevel)) \ {{}}
    /\ end_levels \in SUBSET row_levels
    /\ attr_levels \in SUBSET row_levels
    /\ mlevel = MinLevel(row_levels)
    /\ mcolumns = <<>>
    /\ mpc = "loop"
    /\ IdleThreading
    /\ IdleCondense
    /\ IdleHierarchy
    /\ IdleExtract
    /\ IdleExcept("Columns")

(* one iteration of the level loop, lines 1656-1688 *)
ColumnsLevel ==
    /\ mpc = "loop"
    /\ mlevel <= MaxLevelOf(row_levels)
    /\ LET cols == DfLevelRenamed(mlevel, end_levels, attr_levels)
           on == {IntName(k) : k \in 0..(mlevel - 1)}
       IN  mcolumns' = IF mlevel \notin row_levels
                       THEN Append(mcolumns, IntName(mlevel))
                       ELSE IF mlevel = MinLevel(row_levels)
                       THEN cols
                       ELSE MergeColumns(mcolumns, cols, on)
    /\ mlevel' = mlevel + 1
    /\ UNCHANGED <<row_levels, end_levels, attr_levels, mpc>>
    /\ UNCHANGED <<thrVars, cndVars, hieVars, extVars, refVars, conVars, timVars, sumVars>>

(* lines 1689-1719: the columns with an int name are dropped *)
ColumnsFinish ==
    /\ mpc = "loop"
    /\ mlevel > MaxLevelOf(row_levels)
    /\ LET IsStr(c) == ~c.isint
       IN  mcolumns' = SelectSeq(mcolumns, IsStr)
    /\ mpc' = "done"
    /\ UNCHANGED <<row_levels, end_levels, attr_levels, mlevel>>
    /\ UNCHANGED <<thrVars, cndVars, hieVars, extVars, refVars, conVars, timVars, sumVars>>

NextColumns ==
    \/ ColumnsLevel
    \/ ColumnsFinish

SpecColumns == InitColumns /\ [][NextColumns]_vars

(* C28: at every merge step of condense the columns of the running table
   and of the level sub-table that are not keys have no name in common, and
   every column of the result bears the name the rename gave it at one
   level, also when the attribute column has values at several levels. *)
RenamedNames ==
    UNION {{c \in {DfLevelRenamed(l, {l}, {l})[i] : i \in 1..Len(DfLevelRenamed(l, {l}, {l}))} : ~c.isint} :
              l \in row_levels}

C28_MergeColumnsDisjoint ==
    /\ (mpc = "loop" /\ mlevel \in row_levels /\ mlevel > MinLevel(row_levels)) =>
           LET on == {IntName(k) : k \in 0..(mlevel - 1)}
           IN  NonKeyNames(mcolumns, on)
                   \cap NonKeyNames(DfLevelRenamed(mlevel, end_levels, attr_levels), on) = {}
    /\ mpc = "done" => \A i \in DOMAIN mcolumns : mcolumns[i] \in RenamedNames

----------------------------------------------------------------------------
(* PIAF.py: summary_extract of EventHierarchy and CondensedEventHierarchy,
   and Event.summary *)

(* Event.summary(tag_list, summary_types, dataserver=None,
   calculation_basis=TIME_WEIGHTED, time_type=AUTO): the positional
   arguments after summary_types bound to the parameters, and the call
   taglist.summary(starttime, endtime, summary_types, calculation_basis,
   time_type) made with them *)
EventSummary(positional) ==
    [calculation_basis |-> IF Len(positional) >= 2 THEN positional[2] ELSE "TimeWeighted",
     time_type |-> IF Len(positional) >= 3 THEN positional[3] ELSE "Auto"]

(* the positional arguments each variant hands to Event.summary after
   summary_types: lines 1906-1912, 1938-1944, 2693-2699, 2738-2745 *)
SummaryArguments ==
    IF scls = "EventHierarchy" /\ ~scol
    THEN <<sdataserver, calculation_basis, time_type>>
    ELSE <<calculation_basis, time_type>>

InitSummary ==
    /\ scls \in {"EventHierarchy", "CondensedEventHierarchy"}
    /\ scol \in BOOLEAN
    /\ sdataserver \in {"None", "PIServer"}
    /\ calculation_basis \in {"TimeWeighted", "EventWeighted"}
    /\ time_type \in {"Auto", "EarliestTime", "MostRecentTime"}
    /\ nevents \in 1..MaxRows
    /\ si = 1
    /\ requests = <<>>
    /\ IdleThreading
    /\ IdleCondense
    /\ IdleHierarchy
    /\ IdleExtract
    /\ IdleExcept("Summary")

(* one row of df.apply: the event's summary call *)
SummaryRow ==
    /\ si >= 1
    /\ si <= nevents
    /\ requests' = Append(requests, EventSummary(SummaryArguments))
    /\ si' = si + 1
    /\ UNCHANGED <<scls, scol, sdataserver, calculation_basis, time_type, nevents>>
    /\ UNCHANGED <<thrVars, cndVars, hieVars, extVars, refVars, conVars, timVars, colVars>>

NextSummary == SummaryRow

SpecSummary == InitSummary /\ [][NextSummary]_vars

(* C30: every summary call that summary_extract makes on the data source
   has the caller's calculation_basis as its calculation basis and the
   caller's time_type as its timestamp calculation, in list and in column
   mode, for both accessors. *)
C30_SummaryArgumentsForwarded ==
    \A k \in DOMAIN requests :
        /\ requests[k].calculation_basis = calculation_basis
        /\ requests[k].time_type = time_type

====
